---- MODULE Spec2Model ----
(***************************************************************************)
(* Verification model of llm-trader-rag: the JSON-RPC front-end            *)
(* (rag-rpc-server), the retrieval engine (trading-strategy/llm) and the   *)
(* ingestion side (trading-data-services/rag).                             *)
(*                                                                         *)
(* Seven state machines share the module, one specification each:         *)
(*   Spec         one TCP connection served by handle_connection           *)
(*   SpecIngest   one ingest_multiple_symbols run                          *)
(*   SpecExtract  one extract_snapshots call, loop iteration by iteration  *)
(*   SpecQuery    one retrieval and the statistics of its matches          *)
(*   SpecFn       one call of a function without state of its own          *)
(*   SpecServer   the accept loop and the tasks of two connections         *)
(*   SpecStrategy concurrent generate_signal calls on one strategy         *)
(* Similarities are integer percents (0.7 = 70); timestamps are            *)
(* milliseconds.                                                           *)
(***************************************************************************)
EXTENDS Integers, Sequences, FiniteSets, TLC

VARIABLES
    \* ---- RPC connection (server.rs handle_connection) ----
    pc,          \* position of the connection task: read / process / write / closed
    cur,         \* the line held in `line` while it is processed
    resp,        \* the response computed by process_request, not yet written
    lines,       \* history: the lines read_line returned, in order
    fates,       \* history: what the downstream did for each processed line
    out,         \* the response lines written to the socket, in order
    sent,        \* number of lines the peer has put on the socket and the task consumed
    closedBy,    \* why the task left its loop: open / eof / read_error / write_error
    index,       \* the collection: similarity of each point to the query, descending
    collection_exists, \* whether the store holds the collection the server searches
    min_matches  \* ServerConfig.min_matches, given to retriever and handler alike

rpcVars == <<pc, cur, resp, lines, fates, out, sent, closedBy, index,
            collection_exists, min_matches>>

VARIABLES
    \* ---- one extract_snapshots call (snapshot_extractor.rs) ----
    exPc,          \* idle / loop / done
    exSource,      \* HistoricalSnapshotExtractor.data_source: "Mock" or "Lmdb"
    exKv,          \* the key-value store behind lmdb_reader
    exSymbol,      \* argument symbol
    exStart,       \* argument start_timestamp
    exEnd,         \* argument end_timestamp
    exInterval,    \* argument interval_minutes
    current_ts,    \* loop variable current_ts
    snapshots,     \* the Vec being built
    success_count, \* local success_count
    skip_count     \* local skip_count

exVars == <<exPc, exSource, exKv, exSymbol, exStart, exEnd, exInterval,
            current_ts, snapshots, success_count, skip_count>>

VARIABLES
    \* ---- one ingest_multiple_symbols run (ingestion_pipeline.rs) ----
    ingPc,         \* idle / start / embed / upsert / done
    ingResult,     \* running / ok / err: what ingest_multiple_symbols returned
    ingSource,     \* data source of the pipeline's extractor
    ingKv,         \* its key-value store
    ingSymbols,    \* symbols not yet ingested (`for symbol in symbols`)
    ingStart,      \* argument start_timestamp
    ingEnd,        \* argument end_timestamp
    ingInterval,   \* argument snapshot_interval_minutes
    ingSymbol,     \* symbol of the ingest_symbol_history call in progress
    ingSnapshots,  \* its local `snapshots`
    nextBatch,     \* position of the first snapshot not yet embedded
    all_points,    \* its local all_points
    point_id,      \* its local point_id
    stats,         \* its local stats
    results,       \* `results` of ingest_multiple_symbols
    collection,    \* the vector store collection: point id -> point
    upserts        \* upsert_points calls issued by the call in progress

ingVars == <<ingPc, ingResult, ingSource, ingKv, ingSymbols, ingStart, ingEnd,
             ingInterval, ingSymbol, ingSnapshots, nextBatch, all_points,
             point_id, stats, results, collection, upserts>>

VARIABLES
    \* ---- one retrieval followed by its statistics (rag_retriever.rs, handler.rs) ----
    qPc,          \* idle / call / retrieved / done
    qIndex,       \* the collection searched, as similarities, descending
    qTopK,        \* argument top_k
    qMinMatches,  \* min_matches of the retriever and of the handler
    qFate,        \* what embedding model and vector store do during the call
    qRetrieved,   \* what the retrieval engine returned
    qStatistics   \* Option: the Statistics computed from the matches

qVars == <<qPc, qIndex, qTopK, qMinMatches, qFate, qRetrieved, qStatistics>>

VARIABLES
    \* ---- one call of a function that has no state of its own ----
    fnPc,    \* idle / call / done
    fnName,  \* the function called
    fnArg,   \* its arguments
    fnRet    \* what it returned

fnVars == <<fnPc, fnName, fnArg, fnRet>>

VARIABLES
    \* ---- the accept loop and its connection tasks (server.rs run) ----
    listening,        \* the accept loop of RpcServer::run is running
    backlog,          \* connections established by peers, not yet accepted
    accept_failures,  \* number of accept() calls that returned Err
    conns             \* per connection: position of its task, socket and history

srvVars == <<listening, backlog, accept_failures, conns>>

VARIABLES
    \* ---- one LlmRagV1Strategy and its concurrent callers ----
    clock,             \* chrono::Utc::now().timestamp_millis(), in ticks
    last_signal_time,  \* the u64 behind Arc<Mutex<u64>>
    callers,           \* per caller: position in generate_signal, check time
    signals,           \* the decisions returned so far, in return order
    calls_started      \* number of generate_signal calls begun

stVars == <<clock, last_signal_time, callers, signals, calls_started>>

(***************************************************************************)
(* Bounds of the model.                                                    *)
(***************************************************************************)
MaxLines == 2
MaxIndex == 3
MaxMinMatches == 3
\* ticks of 3 minutes in the longest extraction range
MaxTicks == 3
\* entries recorded of a Vec that a loop with interval_ms = 0 grows without end
MaxIter == 5
\* ticks in the longest ingestion range
MaxIngestTicks == 201
\* points in the largest collection of a single retrieval
MaxQueryIndex == 4
\* matches in the longest list handed to the statistics kernel
MaxMatches == 5
\* scored points handed to the hydration loop
MaxPoints == 2
\* intra-hour prices handed to the outcome calculation
MaxPrices == 2
\* lines one peer sends on a connection, failing accepts
MaxPeerLines == 2
MaxAcceptFailures == 1
\* the strategy model: clock ticks and generate_signal calls
MaxClock == 4
MaxCalls == 3

(***************************************************************************)
(* protocol.rs: error codes and query defaults.                            *)
(***************************************************************************)
PARSE_ERROR == -32700
INVALID_REQUEST == -32600
METHOD_NOT_FOUND == -32601
INVALID_PARAMS == -32602
INTERNAL_ERROR == -32603
INSUFFICIENT_MATCHES == -32001
SYMBOL_NOT_FOUND == -32002
QDRANT_ERROR == -32003
EMBEDDING_ERROR == -32004

default_top_k == 5
default_min_similarity == 70
default_include_regime_filters == TRUE

\* config.rs ServerConfig::default
default_min_matches == 3

\* rag_retriever.rs: the score threshold handed to every search, Some(0.7)
SCORE_THRESHOLD == 70

\* Option<Value>::None of a request or response id
NullId == 0

(***************************************************************************)
(* Request lines a peer can send.  A line is described by what the server  *)
(* can tell about it: whether it is valid UTF-8, whether it is a JSON      *)
(* object of the JsonRpcRequest shape, and the request's fields.           *)
(***************************************************************************)
Line(utf8, json, jsonrpc, id, method, params, minsim, topk) ==
    [utf8 |-> utf8, json |-> json, jsonrpc |-> jsonrpc, id |-> id,
     method |-> method, params |-> params,
     min_similarity |-> minsim, top_k |-> topk,
     include_regime_filters |-> default_include_regime_filters]

QueryLine(id, minsim, topk) ==
    Line(TRUE, TRUE, "2.0", id, "rag.query_patterns", "query", minsim, topk)

\* a query whose query_config sets include_regime_filters to false
QueryLineNoRegime(id) ==
    [ QueryLine(id, default_min_similarity, default_top_k)
        EXCEPT !.include_regime_filters = FALSE ]

LineSet ==
    { Line(FALSE, FALSE, "", NullId, "", "none", default_min_similarity, default_top_k),
      Line(TRUE, FALSE, "", NullId, "", "none", default_min_similarity, default_top_k),
      Line(TRUE, TRUE, "1.0", 1, "rag.query_patterns", "query", default_min_similarity, default_top_k),
      Line(TRUE, TRUE, "1.0", 2, "invalid.method", "query", default_min_similarity, default_top_k),
      Line(TRUE, TRUE, "2.0", 2, "invalid.method", "invalid", default_min_similarity, default_top_k),
      Line(TRUE, TRUE, "2.0", 1, "rag.query_patterns", "none", default_min_similarity, default_top_k),
      Line(TRUE, TRUE, "2.0", 2, "rag.query_patterns", "invalid", default_min_similarity, default_top_k),
      QueryLine(1, default_min_similarity, default_top_k),
      QueryLine(2, 90, default_top_k),
      QueryLine(NullId, default_min_similarity, 2),
      QueryLineNoRegime(1) }

\* what the downstream collaborators do during one query
Fates == {"ok", "embed_fail", "store_fail"}

RECURSIVE IsDescending(_)
IsDescending(s) ==
    IF Len(s) < 2 THEN TRUE
    ELSE s[1] >= s[2] /\ IsDescending(Tail(s))

IndexSet ==
    { s \in UNION { [1..n -> {60, 80, 95}] : n \in 0..MaxIndex } : IsDescending(s) }

Min(a, b) == IF a < b THEN a ELSE b

(***************************************************************************)
(* error.rs: RpcError, its code, its data and its Display text.            *)
(***************************************************************************)
RpcErr(tag, text, found, required) ==
    [tag |-> tag, text |-> text, found |-> found, required |-> required]

RpcErrorCode(e) ==
    CASE e.tag = "ParseError" -> PARSE_ERROR
      [] e.tag = "InvalidRequest" -> INVALID_REQUEST
      [] e.tag = "MethodNotFound" -> METHOD_NOT_FOUND
      [] e.tag = "InvalidParams" -> INVALID_PARAMS
      [] e.tag = "InternalError" -> INTERNAL_ERROR
      [] e.tag = "InsufficientMatches" -> INSUFFICIENT_MATCHES
      [] e.tag = "SymbolNotFound" -> SYMBOL_NOT_FOUND
      [] e.tag = "QdrantError" -> QDRANT_ERROR
      [] e.tag = "EmbeddingError" -> EMBEDDING_ERROR

\* Option<Value>: <<>> is None, a one-element sequence is Some(object)
RpcErrorData(e) ==
    IF e.tag = "InsufficientMatches"
    THEN << [matches_found |-> e.found, min_required |-> e.required,
             suggestion |-> "Try increasing lookback_days or reducing min_similarity"] >>
    ELSE << >>

\* the #[error("...")] prefix followed by the formatted argument
RpcErrorToString(e) ==
    CASE e.tag = "ParseError" -> <<"Parse error", e.text>>
      [] e.tag = "InvalidRequest" -> <<"Invalid request", e.text>>
      [] e.tag = "MethodNotFound" -> <<"Method not found", e.text>>
      [] e.tag = "InvalidParams" -> <<"Invalid params", e.text>>
      [] e.tag = "InternalError" -> <<"Internal error", e.text>>
      [] e.tag = "InsufficientMatches" -> <<"Insufficient matches", "found/required">>
      [] e.tag = "SymbolNotFound" -> <<"Symbol not found", e.text>>
      [] e.tag = "QdrantError" -> <<"Qdrant error", e.text>>
      [] e.tag = "EmbeddingError" -> <<"Embedding error", e.text>>

(***************************************************************************)
(* Responses: JsonRpcError and JsonRpcResponse in one record shape;        *)
(* code 0 marks a success response.                                        *)
(***************************************************************************)
ErrorResponse(id, code, message, data) ==
    [id |-> id, code |-> code, message |-> message, data |-> data,
     matches |-> << >>, statistics |-> << >>, metadata |-> << >>]

\* JsonRpcResponse whose result is the serialized RagQueryResponse
SuccessResponse(id, result) ==
    [id |-> id, code |-> 0, message |-> <<"", "">>, data |-> << >>,
     matches |-> result.matches, statistics |-> <<result.statistics>>,
     metadata |-> <<result.metadata>>]

create_error_response(id, error) ==
    ErrorResponse(id, RpcErrorCode(error), RpcErrorToString(error), RpcErrorData(error))

\* the response that stands in `resp` before any request was processed
NoResponse == ErrorResponse(NullId, 0, <<"", "">>, << >>)
NoLine == Line(TRUE, FALSE, "", NullId, "", "none", default_min_similarity, default_top_k)

(***************************************************************************)
(* vector_store.rs search: the points whose score reaches the threshold,   *)
(* best first, at most `limit` of them.                                    *)
(***************************************************************************)
\* a search that ignores `limit`
Search_Unlimited(idx, limit, score_threshold) ==
    SelectSeq(idx, LAMBDA s : s >= score_threshold)

Search(idx, limit, score_threshold) ==
    LET above == SelectSeq(idx, LAMBDA s : s >= score_threshold)
    IN  SubSeq(above, 1, Min(limit, Len(above)))

(***************************************************************************)
(* rag_retriever.rs find_similar_patterns: embed, search with the fixed    *)
(* threshold, hydrate, then the minimum-match gate.                        *)
(***************************************************************************)
\* The payload of a stored point.  A point of the model is identified by
\* its similarity to the query; its outcome_4h (Option<f64>, in integer
\* percent: << >> is None) is that of the snapshot it was built from.
PayloadOutcome4h(score) ==
    CASE score = 95 -> << 3 >>
      [] score = 88 -> << >>
      [] score = 80 -> << -2 >>
      [] score = 72 -> << 0 >>
      [] OTHER -> << 1 >>

\* step 4: one HistoricalMatch per scored point, in search order
HistoricalMatch(score) ==
    [similarity |-> score, outcome_4h |-> PayloadOutcome4h(score)]

Hydrate(scored_points) ==
    [ i \in 1..Len(scored_points) |-> HistoricalMatch(scored_points[i]) ]

\* RetrievalMetrics: the two latencies are wall-clock readings, present in
\* every Ok of the metrics variant
NoMetrics == << >>
LatencyMetrics == << "embedding_latency_ms", "retrieval_latency_ms" >>

RetrieverOk(matches) ==
    [ok |-> TRUE, err |-> "", matches |-> matches, metrics |-> NoMetrics]
RetrieverErr(text) ==
    [ok |-> FALSE, err |-> text, matches |-> << >>, metrics |-> NoMetrics]

\* a retrieval engine without step 5: it hands on whatever it hydrated
find_similar_patterns_NoGate(idx, top_k, retriever_min_matches, fate) ==
    IF fate = "embed_fail" THEN RetrieverErr("embedding failed")
    ELSE IF fate = "store_fail" THEN RetrieverErr("qdrant unavailable")
    ELSE RetrieverOk(Hydrate(Search(idx, top_k, SCORE_THRESHOLD)))

find_similar_patterns(idx, top_k, retriever_min_matches, fate) ==
    IF fate = "embed_fail" THEN RetrieverErr("embedding failed")
    ELSE IF fate = "store_fail" THEN RetrieverErr("qdrant unavailable")
    ELSE LET scored_points == Search(idx, top_k, SCORE_THRESHOLD)
             matches == Hydrate(scored_points)
         IN  IF Len(matches) < retriever_min_matches
             THEN RetrieverOk(<< >>)
             ELSE RetrieverOk(matches)

\* the variant the RPC handler calls: the same result, with latency metrics
find_similar_patterns_with_metrics(idx, top_k, retriever_min_matches, fate) ==
    LET r == find_similar_patterns(idx, top_k, retriever_min_matches, fate)
    IN  IF r.ok THEN [r EXCEPT !.metrics = LatencyMetrics] ELSE r

(***************************************************************************)
(* handler.rs handle_query.                                                *)
(***************************************************************************)
RECURSIVE SumSeq(_)
SumSeq(xs) == IF xs = << >> THEN 0 ELSE Head(xs) + SumSeq(Tail(xs))

\* Vec::sort_by(partial_cmp): ascending
RECURSIVE InsertSorted(_, _)
InsertSorted(xs, x) ==
    IF xs = << >> THEN << x >>
    ELSE IF x <= Head(xs) THEN << x >> \o xs
    ELSE << Head(xs) >> \o InsertSorted(Tail(xs), x)

RECURSIVE SortAscending(_)
SortAscending(xs) ==
    IF xs = << >> THEN << >> ELSE InsertSorted(SortAscending(Tail(xs)), Head(xs))

\* filter_map(|m| m.outcome_4h): the outcomes that are Some, in match order
RECURSIVE Outcomes4h(_)
Outcomes4h(matches) ==
    IF matches = << >> THEN << >>
    ELSE Head(matches).outcome_4h \o Outcomes4h(Tail(matches))

\* a quotient of the code's floating-point divisions, kept as <<num, den>>
Ratio(num, den) == << num, den >>

OutcomeStats(mean, median, p10, p90, positive_count, negative_count, win_rate) ==
    [mean |-> mean, median |-> median, p10 |-> p10, p90 |-> p90,
     positive_count |-> positive_count, negative_count |-> negative_count,
     win_rate |-> win_rate]

ZeroOutcomeStats == OutcomeStats(Ratio(0, 1), 0, 0, 0, 0, 0, Ratio(0, 1))

Statistics(total_matches, avg_similarity, similarity_range, outcome_4h) ==
    [total_matches |-> total_matches, avg_similarity |-> avg_similarity,
     similarity_range |-> similarity_range, outcome_4h |-> outcome_4h]

\* statistics that count an outcome of zero as a win
calculate_statistics_ZeroAsPositive(matches) ==
    IF matches = << >>
    THEN Statistics(0, Ratio(0, 1), << 0, 0 >>, ZeroOutcomeStats)
    ELSE
    LET total == Len(matches)
        sims == [ i \in 1..total |-> matches[i].similarity ]
        sorted_sims == SortAscending(sims)
        outcomes_4h == SortAscending(Outcomes4h(matches))
        n == Len(outcomes_4h)
        outcome_stats ==
            IF n > 0
            THEN LET positive_count == Len(SelectSeq(outcomes_4h, LAMBDA x : x >= 0))
                     negative_count == Len(SelectSeq(outcomes_4h, LAMBDA x : x < 0))
                 IN  OutcomeStats(Ratio(SumSeq(outcomes_4h), n),
                                  outcomes_4h[(n \div 2) + 1],
                                  outcomes_4h[((n * 1) \div 10) + 1],
                                  outcomes_4h[((n * 9) \div 10) + 1],
                                  positive_count, negative_count,
                                  Ratio(positive_count, n))
            ELSE ZeroOutcomeStats
    IN  Statistics(total, Ratio(SumSeq(sims), total),
                   << sorted_sims[1], sorted_sims[total] >>, outcome_stats)

\* statistics that take the percentiles from the outcomes in match order
calculate_statistics_Unsorted(matches) ==
    IF matches = << >>
    THEN Statistics(0, Ratio(0, 1), << 0, 0 >>, ZeroOutcomeStats)
    ELSE
    LET total == Len(matches)
        sims == [ i \in 1..total |-> matches[i].similarity ]
        sorted_sims == SortAscending(sims)
        outcomes_4h == Outcomes4h(matches)
        n == Len(outcomes_4h)
        outcome_stats ==
            IF n > 0
            THEN LET positive_count == Len(SelectSeq(outcomes_4h, LAMBDA x : x > 0))
                     negative_count == Len(SelectSeq(outcomes_4h, LAMBDA x : x < 0))
                 IN  OutcomeStats(Ratio(SumSeq(outcomes_4h), n),
                                  outcomes_4h[(n \div 2) + 1],
                                  outcomes_4h[((n * 1) \div 10) + 1],
                                  outcomes_4h[((n * 9) \div 10) + 1],
                                  positive_count, negative_count,
                                  Ratio(positive_count, n))
            ELSE ZeroOutcomeStats
    IN  Statistics(total, Ratio(SumSeq(sims), total),
                   << sorted_sims[1], sorted_sims[total] >>, outcome_stats)

calculate_statistics(matches) ==
    IF matches = << >>
    THEN Statistics(0, Ratio(0, 1), << 0, 0 >>, ZeroOutcomeStats)
    ELSE
    LET total == Len(matches)
        sims == [ i \in 1..total |-> matches[i].similarity ]
        sorted_sims == SortAscending(sims)
        outcomes_4h == SortAscending(Outcomes4h(matches))
        n == Len(outcomes_4h)
        outcome_stats ==
            IF n > 0
            THEN LET positive_count == Len(SelectSeq(outcomes_4h, LAMBDA x : x > 0))
                     negative_count == Len(SelectSeq(outcomes_4h, LAMBDA x : x < 0))
                 IN  OutcomeStats(Ratio(SumSeq(outcomes_4h), n),
                                  outcomes_4h[(n \div 2) + 1],
                                  outcomes_4h[((n * 1) \div 10) + 1],
                                  outcomes_4h[((n * 9) \div 10) + 1],
                                  positive_count, negative_count,
                                  Ratio(positive_count, n))
            ELSE ZeroOutcomeStats
    IN  Statistics(total, Ratio(SumSeq(sims), total),
                   << sorted_sims[1], sorted_sims[total] >>, outcome_stats)

\* a handler that lists the regime filters whatever the request says
get_filters_applied_Always(params) ==
    << "symbol", "timerange", "oi_delta", "funding_sign" >>

get_filters_applied(params) ==
    IF params.include_regime_filters
    THEN << "symbol", "timerange", "oi_delta", "funding_sign" >>
    ELSE << "symbol", "timerange" >>

Metadata(filters_applied) ==
    [filters_applied |-> filters_applied, schema_version |-> 1,
     feature_version |-> "v1_nofx_3m4h", embedding_model |-> "bge-small-en-v1.5"]

RagQueryResponse(matches, statistics, metadata) ==
    [matches |-> matches, statistics |-> statistics, metadata |-> metadata]

HandlerOk(result) == [ok |-> TRUE, error |-> RpcErr("", "", 0, 0), result |-> result]
HandlerErr(e) == [ok |-> FALSE, error |-> e, result |-> (RagQueryResponse(<< >>, << >>, << >>))]

handle_query(params, idx, handler_min_matches, fate) ==
    LET r == find_similar_patterns_with_metrics(idx, params.top_k, handler_min_matches, fate)
    IN  IF ~r.ok THEN HandlerErr(RpcErr("InternalError", r.err, 0, 0))
        ELSE IF Len(r.matches) < handler_min_matches
        THEN HandlerErr(RpcErr("InsufficientMatches", "", Len(r.matches), handler_min_matches))
        ELSE HandlerOk(RagQueryResponse(r.matches, calculate_statistics(r.matches),
                                        Metadata(get_filters_applied(params))))

(***************************************************************************)
(* server.rs handle_query_patterns and process_request.                    *)
(***************************************************************************)
\* a method handler that takes absent or unusable params as a default query
handle_query_patterns_Lenient(request, idx, mm, fate) ==
    LET h == handle_query(request, idx, mm, fate)
    IN  IF h.ok THEN SuccessResponse(request.id, h.result)
        ELSE create_error_response(request.id, h.error)

handle_query_patterns(request, idx, mm, fate) ==
    IF request.params = "none"
    THEN create_error_response(request.id, RpcErr("InvalidParams", "Missing params", 0, 0))
    ELSE IF request.params = "invalid"
    THEN create_error_response(request.id, RpcErr("InvalidParams", "Invalid params: serde", 0, 0))
    ELSE LET h == handle_query(request, idx, mm, fate)
         IN  IF h.ok THEN SuccessResponse(request.id, h.result)
             ELSE create_error_response(request.id, h.error)

\* a dispatcher that looks the method up before it validates the version
process_request_MethodFirst(line, idx, mm, fate) ==
    IF ~line.json
    THEN ErrorResponse(NullId, PARSE_ERROR, <<"Parse error", "serde">>, << >>)
    ELSE IF line.method # "rag.query_patterns"
    THEN create_error_response(line.id, RpcErr("MethodNotFound", line.method, 0, 0))
    ELSE IF line.jsonrpc # "2.0"
    THEN create_error_response(line.id,
             RpcErr("InvalidRequest", "JSON-RPC version must be 2.0", 0, 0))
    ELSE handle_query_patterns(line, idx, mm, fate)

\* a dispatcher that answers an unknown method without the request id
process_request_AnonymousMethodError(line, idx, mm, fate) ==
    IF ~line.json
    THEN ErrorResponse(NullId, PARSE_ERROR, <<"Parse error", "serde">>, << >>)
    ELSE IF line.jsonrpc # "2.0"
    THEN create_error_response(line.id,
             RpcErr("InvalidRequest", "JSON-RPC version must be 2.0", 0, 0))
    ELSE IF line.method = "rag.query_patterns"
    THEN handle_query_patterns(line, idx, mm, fate)
    ELSE create_error_response(NullId, RpcErr("MethodNotFound", line.method, 0, 0))

process_request(line, idx, mm, fate) ==
    IF ~line.json
    THEN ErrorResponse(NullId, PARSE_ERROR, <<"Parse error", "serde">>, << >>)
    ELSE IF line.jsonrpc # "2.0"
    THEN create_error_response(line.id,
             RpcErr("InvalidRequest", "JSON-RPC version must be 2.0", 0, 0))
    ELSE IF line.method = "rag.query_patterns"
    THEN handle_query_patterns(line, idx, mm, fate)
    ELSE create_error_response(line.id, RpcErr("MethodNotFound", line.method, 0, 0))

\* the request gets as far as the retrieval engine
ReachesRetriever(line) ==
    /\ line.json
    /\ line.jsonrpc = "2.0"
    /\ line.method = "rag.query_patterns"
    /\ line.params = "query"

(***************************************************************************)
(* server.rs handle_connection: the per-connection loop.                   *)
(***************************************************************************)
\* reader.read_line(&mut line).await? with a line on the socket
ReadLine ==
    /\ pc = "read"
    /\ sent < MaxLines
    /\ \E l \in LineSet :
        /\ sent' = sent + 1
        /\ IF l.utf8
           THEN /\ cur' = l
                /\ lines' = Append(lines, l)
                /\ pc' = "process"
                /\ closedBy' = closedBy
           ELSE /\ pc' = "closed"
                /\ closedBy' = "read_error"
                /\ UNCHANGED <<cur, lines>>
    /\ UNCHANGED <<resp, fates, out, index, collection_exists,
                   min_matches>>
    /\ UNCHANGED <<exVars, ingVars, qVars, fnVars, srvVars, stVars>>

\* bytes_read == 0: the peer closed the connection
ReadEof ==
    /\ pc = "read"
    /\ pc' = "closed"
    /\ closedBy' = "eof"
    /\ UNCHANGED <<cur, resp, lines, fates, out, sent, index, collection_exists,
                   min_matches>>
    /\ UNCHANGED <<exVars, ingVars, qVars, fnVars, srvVars, stVars>>

\* let response = process_request(&line, &handler).await
ProcessLine ==
    /\ pc = "process"
    /\ \E fate \in Fates :
        /\ (~ReachesRetriever(cur)) => fate = "ok"
        \* a search in a collection that does not exist is an Err of the store
        /\ (ReachesRetriever(cur) /\ ~collection_exists) => fate # "ok"
        /\ resp' = process_request(cur, index, min_matches, fate)
        /\ fates' = Append(fates, fate)
    /\ pc' = "write"
    /\ UNCHANGED <<cur, lines, out, sent, closedBy, index, collection_exists,
                   min_matches>>
    /\ UNCHANGED <<exVars, ingVars, qVars, fnVars, srvVars, stVars>>

\* a writer that puts the new response ahead of the ones already written
WriteResponse_Reordered ==
    /\ pc = "write"
    /\ out' = <<resp>> \o out
    /\ pc' = "read"
    /\ UNCHANGED <<cur, resp, lines, fates, sent, closedBy, index, collection_exists,
                   min_matches>>
    /\ UNCHANGED <<exVars, ingVars, qVars, fnVars, srvVars, stVars>>

\* writer.write_all(..) / write_all(b"\n") / flush succeed
WriteResponse ==
    /\ pc = "write"
    /\ out' = Append(out, resp)
    /\ pc' = "read"
    /\ UNCHANGED <<cur, resp, lines, fates, sent, closedBy, index, collection_exists,
                   min_matches>>
    /\ UNCHANGED <<exVars, ingVars, qVars, fnVars, srvVars, stVars>>

\* a write on the socket fails: the `?` leaves the loop
WriteFail ==
    /\ pc = "write"
    /\ pc' = "closed"
    /\ closedBy' = "write_error"
    /\ UNCHANGED <<cur, resp, lines, fates, out, sent, index, collection_exists,
                   min_matches>>
    /\ UNCHANGED <<exVars, ingVars, qVars, fnVars, srvVars, stVars>>

NextRpc ==
    \/ ReadLine
    \/ ReadEof
    \/ ProcessLine
    \/ WriteResponse
    \/ WriteFail


(***************************************************************************)
(* lmdb_reader.rs: the key-value store.  A table maps a key to the set of  *)
(* numeric fields its JSON object holds; an absent key is not in the       *)
(* table's domain.                                                         *)
(***************************************************************************)
\* snapshot_extractor.rs: spacing and length of the two series
INTERVAL_3M == 180000
INTERVAL_4H == 14400000
SERIES_COUNT == 10

\* first tick of the modelled ranges
T0 == 1800000

make_key(symbol, timestamp_ms) == <<symbol, timestamp_ms>>

CandleFields == {"open", "high", "low", "close", "volume"}

TickTimes == { T0 + k * INTERVAL_3M : k \in 0..MaxTicks }
Grid3m == { t - i * INTERVAL_3M : t \in TickTimes, i \in 0..(SERIES_COUNT - 1) }
Grid4h == { t - i * INTERVAL_4H : t \in TickTimes, i \in 0..(SERIES_COUNT - 1) }

FullTable(times, fields) ==
    [ k \in { make_key(sym, t) : sym \in {"BTCUSDT", "ETHUSDT"}, t \in times } |-> fields ]

Without(table, keys) == [ k \in (DOMAIN table) \ keys |-> table[k] ]

Lacking(table, keys, field) ==
    [ k \in DOMAIN table |-> IF k \in keys THEN table[k] \ {field} ELSE table[k] ]

\* keys that some stores of the model lack, and objects that lack a field
Absent3m == { make_key("BTCUSDT", T0 + INTERVAL_3M), make_key("BTCUSDT", T0 - INTERVAL_3M) }
Kv(a3, a4, ac, n3, nc) ==
    [ indicators_3m |-> Lacking(Without(FullTable(Grid3m, {"ema_20", "ema_50", "macd", "rsi_7", "rsi_14", "atr_14"}), a3), n3, "macd"),
      indicators_4h |-> Without(FullTable(Grid4h, {"ema_20", "ema_50", "macd", "rsi_14", "atr_3", "atr_14"}), a4),
      candles_3m |-> Lacking(Without(FullTable(Grid3m, CandleFields), ac), nc, "close"),
      candles_4h |-> FullTable(Grid4h, CandleFields) ]

KvSet ==
    { Kv(a3, a4, ac, n3, nc) :
        a3 \in SUBSET Absent3m, a4 \in SUBSET { make_key("BTCUSDT", T0), make_key("BTCUSDT", T0 + 2 * INTERVAL_3M - INTERVAL_4H) }, ac \in SUBSET { make_key("BTCUSDT", T0 + INTERVAL_3M), make_key("BTCUSDT", T0 - 2 * INTERVAL_3M) },
        n3 \in SUBSET { make_key("BTCUSDT", T0 - INTERVAL_3M) }, nc \in SUBSET { make_key("BTCUSDT", T0 + 2 * INTERVAL_3M) } }

\* lmdb_reader: None of the mock extractor
NoKv == [ indicators_3m |-> << >>, indicators_4h |-> << >>,
          candles_3m |-> << >>, candles_4h |-> << >> ]

\* Option<Value>: <<>> is None, <<fields>> is Some(object)
read_indicators(table, symbol, timestamp_ms) ==
    IF make_key(symbol, timestamp_ms) \in DOMAIN table
    THEN << table[make_key(symbol, timestamp_ms)] >>
    ELSE << >>

read_indicators_3m(kv, symbol, timestamp_ms) ==
    read_indicators(kv.indicators_3m, symbol, timestamp_ms)

read_indicators_4h(kv, symbol, timestamp_ms) ==
    read_indicators(kv.indicators_4h, symbol, timestamp_ms)

read_candles_3m(kv, symbol, timestamp_ms) ==
    read_indicators(kv.candles_3m, symbol, timestamp_ms)

\* for i in (0..count).rev(): the points found, oldest first
RECURSIVE read_series(_, _, _, _, _)
read_series(table, symbol, end_timestamp_ms, interval_ms, i) ==
    IF i < 0 THEN << >>
    ELSE LET timestamp == end_timestamp_ms - i * interval_ms
             data == read_indicators(table, symbol, timestamp)
             found == IF data # << >>
                      THEN << [ts |-> timestamp, data |-> data[1]] >>
                      ELSE << >>
         IN  found \o read_series(table, symbol, end_timestamp_ms, interval_ms, i - 1)

read_indicators_3m_series(kv, symbol, end_timestamp_ms, interval_ms, count) ==
    read_series(kv.indicators_3m, symbol, end_timestamp_ms, interval_ms, count - 1)

read_indicators_4h_series(kv, symbol, end_timestamp_ms, interval_ms, count) ==
    read_series(kv.indicators_4h, symbol, end_timestamp_ms, interval_ms, count - 1)

(***************************************************************************)
(* market_snapshot.rs / snapshot_extractor.rs: snapshots.  A series is     *)
(* kept as the timestamps its values were read at, oldest first.           *)
(***************************************************************************)
MarketStateSnapshot_new(symbol, timestamp) ==
    [ symbol |-> symbol, timestamp |-> timestamp,
      mid_prices |-> << >>, ema_20_values |-> << >>, macd_values |-> << >>,
      rsi_7_values |-> << >>, rsi_14_values |-> << >>,
      macd_4h_values |-> << >>, rsi_14_4h_values |-> << >>,
      outcomes |-> FALSE ]

\* json.get(field).and_then(as_f64) is Some
extract_f64(json, field) == field \in json

\* series.iter().filter_map(|(_, data)| data.get(field)...).collect()
FieldSeries(series, field) ==
    LET having == SelectSeq(series, LAMBDA e : field \in e.data)
    IN  [ i \in 1..Len(having) |-> having[i].ts ]

BuildOk(snapshot) == [ok |-> TRUE, snapshot |-> snapshot]
BuildErr(symbol, timestamp) ==
    [ok |-> FALSE, snapshot |-> MarketStateSnapshot_new(symbol, timestamp)]

\* mid_prices: every point of the series needs a candle with a close
CandlesOk(kv, symbol, series) ==
    \A i \in 1..Len(series) :
        LET c == read_candles_3m(kv, symbol, series[i].ts)
        IN  c # << >> /\ "close" \in c[1]

build_snapshot_from_lmdb(kv, symbol, timestamp) ==
    LET indicators_3m == read_indicators_3m(kv, symbol, timestamp)
        indicators_4h == read_indicators_4h(kv, symbol, timestamp)
        candle_3m == read_candles_3m(kv, symbol, timestamp)
        series_3m == read_indicators_3m_series(kv, symbol, timestamp, INTERVAL_3M, SERIES_COUNT)
        series_4h == read_indicators_4h_series(kv, symbol, timestamp, INTERVAL_4H, SERIES_COUNT)
    IN  IF indicators_3m = << >> THEN BuildErr(symbol, timestamp)
        ELSE IF indicators_4h = << >> THEN BuildErr(symbol, timestamp)
        ELSE IF candle_3m = << >> THEN BuildErr(symbol, timestamp)
        ELSE IF ~extract_f64(candle_3m[1], "close") THEN BuildErr(symbol, timestamp)
        ELSE IF \E f \in {"rsi_7", "rsi_14", "macd", "ema_20"} :
                    ~extract_f64(indicators_3m[1], f)
        THEN BuildErr(symbol, timestamp)
        ELSE IF \E f \in {"ema_20", "ema_50", "atr_3", "atr_14"} :
                    ~extract_f64(indicators_4h[1], f)
        THEN BuildErr(symbol, timestamp)
        ELSE IF series_3m = << >> THEN BuildErr(symbol, timestamp)
        ELSE IF ~CandlesOk(kv, symbol, series_3m) THEN BuildErr(symbol, timestamp)
        ELSE IF series_4h = << >> THEN BuildErr(symbol, timestamp)
        ELSE BuildOk(
               [ symbol |-> symbol, timestamp |-> timestamp,
                 mid_prices |-> [ i \in 1..Len(series_3m) |-> series_3m[i].ts ],
                 ema_20_values |-> FieldSeries(series_3m, "ema_20"),
                 macd_values |-> FieldSeries(series_3m, "macd"),
                 rsi_7_values |-> FieldSeries(series_3m, "rsi_7"),
                 rsi_14_values |-> FieldSeries(series_3m, "rsi_14"),
                 macd_4h_values |-> FieldSeries(series_4h, "macd"),
                 rsi_14_4h_values |-> FieldSeries(series_4h, "rsi_14"),
                 outcomes |-> FALSE ])

\* vec![x; 10] for every series, outcomes fabricated
create_mock_snapshot(symbol, timestamp) ==
    LET ten == [ i \in 1..10 |-> timestamp ]
    IN  [ symbol |-> symbol, timestamp |-> timestamp,
          mid_prices |-> ten, ema_20_values |-> ten, macd_values |-> ten,
          rsi_7_values |-> ten, rsi_14_values |-> ten,
          macd_4h_values |-> ten, rsi_14_4h_values |-> ten,
          outcomes |-> TRUE ]

(***************************************************************************)
(* snapshot_extractor.rs extract_snapshots: one action per loop iteration. *)
(***************************************************************************)
ExtractIdle ==
    /\ exPc = "idle"
    /\ exSource = "Mock"
    /\ exKv = NoKv
    /\ exSymbol = "BTCUSDT"
    /\ exStart = 0
    /\ exEnd = 0
    /\ exInterval = 0
    /\ current_ts = 0
    /\ snapshots = << >>
    /\ success_count = 0
    /\ skip_count = 0

\* `while current_ts < end_ts`: the condition holds, the body is entered
LoopTest ==
    /\ exPc = "loop"
    /\ current_ts < exEnd
    /\ exPc' = "body"
    /\ UNCHANGED <<exSource, exKv, exSymbol, exStart, exEnd, exInterval,
                   current_ts, snapshots, success_count, skip_count>>
    /\ UNCHANGED <<rpcVars, ingVars, qVars, fnVars, srvVars, stVars>>

\* Vec::push; the model keeps the first MaxIter entries of a Vec that a
\* loop with interval_ms = 0 grows without end
Push(vec, x) == IF Len(vec) < MaxIter THEN Append(vec, x) ELSE vec

\* `count += 1`, recorded up to MaxIter
Incr(n) == IF n < MaxIter THEN n + 1 ELSE n

\* a loop body that gives up at the first tick it cannot assemble
LmdbStep_Abort ==
    /\ exPc = "body"
    /\ exSource = "Lmdb"
    /\ LET b == build_snapshot_from_lmdb(exKv, exSymbol, current_ts)
       IN  IF b.ok
           THEN /\ snapshots' = Push(snapshots, b.snapshot)
                /\ success_count' = Incr(success_count)
                /\ current_ts' = current_ts + exInterval * 60000
                /\ exPc' = "loop"
                /\ UNCHANGED skip_count
           ELSE /\ exPc' = "done"
                /\ UNCHANGED <<snapshots, success_count, skip_count, current_ts>>
    /\ UNCHANGED <<exSource, exKv, exSymbol, exStart, exEnd, exInterval>>
    /\ UNCHANGED <<rpcVars, ingVars, qVars, fnVars, srvVars, stVars>>

\* extract_from_lmdb: the body of `while current_ts < end_ts`
LmdbStep ==
    /\ exPc = "body"
    /\ exSource = "Lmdb"
    /\ LET b == build_snapshot_from_lmdb(exKv, exSymbol, current_ts)
       IN  IF b.ok
           THEN /\ snapshots' = Push(snapshots, b.snapshot)
                /\ success_count' = Incr(success_count)
                /\ skip_count' = skip_count
           ELSE /\ skip_count' = Incr(skip_count)
                /\ UNCHANGED <<snapshots, success_count>>
    /\ current_ts' = current_ts + exInterval * 60000
    /\ exPc' = "loop"
    /\ UNCHANGED <<exSource, exKv, exSymbol, exStart, exEnd, exInterval>>
    /\ UNCHANGED <<rpcVars, ingVars, qVars, fnVars, srvVars, stVars>>

\* extract_mock_snapshots: the body of `while current_ts < end_timestamp`
MockStep ==
    /\ exPc = "body"
    /\ exSource = "Mock"
    /\ snapshots' = Push(snapshots, create_mock_snapshot(exSymbol, current_ts))
    /\ current_ts' = current_ts + exInterval * 60000
    /\ exPc' = "loop"
    /\ UNCHANGED <<exSource, exKv, exSymbol, exStart, exEnd, exInterval,
                   success_count, skip_count>>
    /\ UNCHANGED <<rpcVars, ingVars, qVars, fnVars, srvVars, stVars>>

\* the loop condition fails: Ok(snapshots)
ExtractReturn ==
    /\ exPc = "loop"
    /\ ~(current_ts < exEnd)
    /\ exPc' = "done"
    /\ UNCHANGED <<exSource, exKv, exSymbol, exStart, exEnd, exInterval,
                   current_ts, snapshots, success_count, skip_count>>
    /\ UNCHANGED <<rpcVars, ingVars, qVars, fnVars, srvVars, stVars>>

NextExtract ==
    \/ LoopTest
    \/ LmdbStep
    \/ MockStep
    \/ ExtractReturn

(***************************************************************************)
(* snapshot_extractor.rs extract_snapshots as a function, for the ranges   *)
(* whose loop ends (interval_minutes > 0).                                 *)
(***************************************************************************)
\* the ticks start, start + interval_ms, ... strictly below end
NumTicks(start, end, interval_ms) ==
    IF end <= start THEN 0
    ELSE ((end - start) + interval_ms - 1) \div interval_ms

TickSeq(start, end, interval_ms) ==
    [ i \in 1..NumTicks(start, end, interval_ms) |-> start + (i - 1) * interval_ms ]

\* an extraction whose range includes end_timestamp
extract_snapshots_Inclusive(source, kv, symbol, start_timestamp, end_timestamp, interval_minutes) ==
    LET ticks == TickSeq(start_timestamp, end_timestamp + 1, interval_minutes * 60000)
        good == SelectSeq(ticks, LAMBDA t : build_snapshot_from_lmdb(kv, symbol, t).ok)
    IN  IF source = "Mock"
        THEN [ i \in 1..Len(ticks) |-> create_mock_snapshot(symbol, ticks[i]) ]
        ELSE [ i \in 1..Len(good) |-> build_snapshot_from_lmdb(kv, symbol, good[i]).snapshot ]

\* the loop of extract_from_lmdb / extract_mock_snapshots over those ticks
extract_snapshots(source, kv, symbol, start_timestamp, end_timestamp, interval_minutes) ==
    LET ticks == TickSeq(start_timestamp, end_timestamp, interval_minutes * 60000)
        good == SelectSeq(ticks, LAMBDA t : build_snapshot_from_lmdb(kv, symbol, t).ok)
    IN  IF source = "Mock"
        THEN [ i \in 1..Len(ticks) |-> create_mock_snapshot(symbol, ticks[i]) ]
        ELSE [ i \in 1..Len(good) |-> build_snapshot_from_lmdb(kv, symbol, good[i]).snapshot ]

(***************************************************************************)
(* ingestion_pipeline.rs and vector_store.rs.                              *)
(***************************************************************************)
BATCH_SIZE == 100

IngestStats(created, generated, uploaded) ==
    [ snapshots_created |-> created, embeddings_generated |-> generated,
      points_uploaded |-> uploaded ]

\* the opening of the rich form: "Market state for {symbol}: ..."
to_embedding_text(snapshot) == << "Market state for", snapshot.symbol >>

\* TextEmbedding::embed: one vector per text
embed(texts) == [ i \in 1..Len(texts) |-> << "bge-small-en-v1.5", texts[i] >> ]

snapshot_to_point(snapshot, embedding, id) ==
    [ id |-> id, vector |-> embedding,
      payload |-> [ symbol |-> snapshot.symbol, timestamp |-> snapshot.timestamp,
                    schema_version |-> 1 ] ]

\* a chunking that drops a trailing batch shorter than the batch size
Chunk_Exact(seq, from, size) ==
    IF from + size - 1 <= Len(seq) THEN SubSeq(seq, from, from + size - 1) ELSE << >>

\* snapshots.chunks(BATCH_SIZE): the batch that starts at position `from`
Chunk(seq, from, size) ==
    SubSeq(seq, from, Min(from + size - 1, Len(seq)))

\* upsert_points: a point replaces the stored point of the same id
Upsert(coll, points) ==
    LET ids == { points[i].id : i \in 1..Len(points) }
    IN  [ id \in (DOMAIN coll) \cup ids |->
            IF id \in ids
            THEN (CHOOSE q \in { points[i] : i \in 1..Len(points) } : q.id = id)
            ELSE coll[id] ]

ONE_HOUR == 3600000

IngestIdle ==
    /\ ingPc = "idle"
    /\ ingResult = "running"
    /\ ingSource = "Mock"
    /\ ingKv = NoKv
    /\ ingSymbols = << >>
    /\ ingStart = 0
    /\ ingEnd = 0
    /\ ingInterval = 0
    /\ ingSymbol = ""
    /\ ingSnapshots = << >>
    /\ nextBatch = 1
    /\ all_points = << >>
    /\ point_id = 0
    /\ stats = IngestStats(0, 0, 0)
    /\ results = << >>
    /\ collection = << >>
    /\ upserts = 0

\* ingest_symbol_history, step 1: extract; an empty result returns at once
IngestExtract ==
    /\ ingPc = "start"
    /\ ingSymbols # << >>
    /\ LET symbol == Head(ingSymbols)
           extracted == extract_snapshots(ingSource, ingKv, symbol,
                                          ingStart, ingEnd, ingInterval)
       IN  /\ ingSymbol' = symbol
           /\ ingSymbols' = Tail(ingSymbols)
           /\ ingSnapshots' = extracted
           /\ nextBatch' = 1
           /\ all_points' = << >>
           /\ point_id' = 0
           /\ upserts' = 0
           /\ IF extracted = << >>
              THEN /\ results' = Append(results,
                                   [symbol |-> symbol, stats |-> IngestStats(0, 0, 0)])
                   /\ stats' = IngestStats(0, 0, 0)
                   /\ ingPc' = "start"
              ELSE /\ stats' = IngestStats(Len(extracted), 0, 0)
                   /\ ingPc' = "embed"
                   /\ results' = results
    /\ UNCHANGED <<ingResult, ingSource, ingKv, ingStart, ingEnd, ingInterval, collection>>
    /\ UNCHANGED <<rpcVars, exVars, qVars, fnVars, srvVars, stVars>>

\* a variant that uploads every batch as soon as it is embedded
EmbedBatch_UpsertEach ==
    /\ ingPc = "embed"
    /\ nextBatch <= Len(ingSnapshots)
    /\ LET batch == Chunk(ingSnapshots, nextBatch, BATCH_SIZE)
           texts == [ i \in 1..Len(batch) |-> to_embedding_text(batch[i]) ]
           embeddings == embed(texts)
           pairs == Min(Len(batch), Len(embeddings))
       IN  /\ stats' = [stats EXCEPT !.embeddings_generated = @ + Len(embeddings)]
           /\ all_points' = all_points \o
                  [ i \in 1..pairs |->
                      snapshot_to_point(batch[i], embeddings[i], point_id + i - 1) ]
           /\ point_id' = point_id + pairs
           /\ collection' = Upsert(collection,
                  [ i \in 1..pairs |->
                      snapshot_to_point(batch[i], embeddings[i], point_id + i - 1) ])
           /\ upserts' = upserts + 1
    /\ nextBatch' = nextBatch + BATCH_SIZE
    /\ ingPc' = IF nextBatch + BATCH_SIZE <= Len(ingSnapshots) THEN "embed" ELSE "upsert"
    /\ UNCHANGED <<ingResult, ingSource, ingKv, ingSymbols, ingStart, ingEnd,
                   ingInterval, ingSymbol, ingSnapshots, results>>
    /\ UNCHANGED <<rpcVars, exVars, qVars, fnVars, srvVars, stVars>>

\* step 2: one batch is rendered, embedded and turned into points
EmbedBatch ==
    /\ ingPc = "embed"
    /\ nextBatch <= Len(ingSnapshots)
    /\ LET batch == Chunk(ingSnapshots, nextBatch, BATCH_SIZE)
           texts == [ i \in 1..Len(batch) |-> to_embedding_text(batch[i]) ]
           embeddings == embed(texts)
           pairs == Min(Len(batch), Len(embeddings))
       IN  /\ stats' = [stats EXCEPT !.embeddings_generated = @ + Len(embeddings)]
           /\ all_points' = all_points \o
                  [ i \in 1..pairs |->
                      snapshot_to_point(batch[i], embeddings[i], point_id + i - 1) ]
           /\ point_id' = point_id + pairs
    /\ nextBatch' = nextBatch + BATCH_SIZE
    /\ ingPc' = IF nextBatch + BATCH_SIZE <= Len(ingSnapshots) THEN "embed" ELSE "upsert"
    /\ UNCHANGED <<ingResult, ingSource, ingKv, ingSymbols, ingStart, ingEnd,
                   ingInterval, ingSymbol, ingSnapshots, results, collection, upserts>>
    /\ UNCHANGED <<rpcVars, exVars, qVars, fnVars, srvVars, stVars>>

\* self.embedding_model.embed(texts, None)? fails: the run returns the error
EmbedFail ==
    /\ ingPc = "embed"
    /\ nextBatch <= Len(ingSnapshots)
    /\ ingPc' = "done"
    /\ ingResult' = "err"
    /\ UNCHANGED <<ingSource, ingKv, ingSymbols, ingStart, ingEnd, ingInterval,
                   ingSymbol, ingSnapshots, nextBatch, all_points, point_id,
                   stats, results, collection, upserts>>
    /\ UNCHANGED <<rpcVars, exVars, qVars, fnVars, srvVars, stVars>>

\* step 3: upload all points in one upsert, then return the stats
UpsertPoints ==
    /\ ingPc = "upsert"
    /\ IF all_points # << >>
       THEN /\ collection' = Upsert(collection, all_points)
            /\ upserts' = upserts + 1
            /\ stats' = [stats EXCEPT !.points_uploaded = point_id]
            /\ results' = Append(results,
                   [symbol |-> ingSymbol,
                    stats |-> [stats EXCEPT !.points_uploaded = point_id]])
       ELSE /\ results' = Append(results, [symbol |-> ingSymbol, stats |-> stats])
            /\ UNCHANGED <<collection, stats, upserts>>
    /\ ingPc' = "start"
    /\ UNCHANGED <<ingResult, ingSource, ingKv, ingSymbols, ingStart, ingEnd,
                   ingInterval, ingSymbol, ingSnapshots, nextBatch, all_points,
                   point_id>>
    /\ UNCHANGED <<rpcVars, exVars, qVars, fnVars, srvVars, stVars>>

\* the vector store rejects the upsert: the run returns the error
UpsertFail ==
    /\ ingPc = "upsert"
    /\ all_points # << >>
    /\ ingPc' = "done"
    /\ ingResult' = "err"
    /\ UNCHANGED <<ingSource, ingKv, ingSymbols, ingStart, ingEnd, ingInterval,
                   ingSymbol, ingSnapshots, nextBatch, all_points, point_id,
                   stats, results, collection, upserts>>
    /\ UNCHANGED <<rpcVars, exVars, qVars, fnVars, srvVars, stVars>>

\* ingest_multiple_symbols: every symbol done, Ok(results)
IngestReturn ==
    /\ ingPc = "start"
    /\ ingSymbols = << >>
    /\ ingPc' = "done"
    /\ ingResult' = "ok"
    /\ UNCHANGED <<ingSource, ingKv, ingSymbols, ingStart, ingEnd, ingInterval,
                   ingSymbol, ingSnapshots, nextBatch, all_points, point_id,
                   stats, results, collection, upserts>>
    /\ UNCHANGED <<rpcVars, exVars, qVars, fnVars, srvVars, stVars>>

NextIngest ==
    \/ IngestExtract
    \/ EmbedBatch
    \/ EmbedFail
    \/ UpsertPoints
    \/ UpsertFail
    \/ IngestReturn

(***************************************************************************)
(* One call of the retrieval engine and the statistics of its matches:     *)
(* find_similar_patterns_with_metrics, then the gate and                   *)
(* calculate_statistics of handle_query.                                   *)
(***************************************************************************)
NoStatistics == << >>

QueryIdle ==
    /\ qPc = "idle"
    /\ qIndex = << >>
    /\ qTopK = default_top_k
    /\ qMinMatches = default_min_matches
    /\ qFate = "ok"
    /\ qRetrieved = RetrieverErr("")
    /\ qStatistics = NoStatistics

\* handler.rs:40-48: the retrieval engine is called and returns
QueryRetrieve ==
    /\ qPc = "call"
    /\ qRetrieved' = find_similar_patterns_with_metrics(qIndex, qTopK, qMinMatches, qFate)
    /\ qPc' = "retrieved"
    /\ UNCHANGED <<qIndex, qTopK, qMinMatches, qFate, qStatistics>>
    /\ UNCHANGED <<rpcVars, exVars, ingVars, fnVars, srvVars, stVars>>

\* handler.rs:54-89: past the gate, the statistics of the matches
QueryStatistics ==
    /\ qPc = "retrieved"
    /\ qRetrieved.ok
    /\ ~(Len(qRetrieved.matches) < qMinMatches)
    /\ qStatistics' = << calculate_statistics(qRetrieved.matches) >>
    /\ qPc' = "done"
    /\ UNCHANGED <<qIndex, qTopK, qMinMatches, qFate, qRetrieved>>
    /\ UNCHANGED <<rpcVars, exVars, ingVars, fnVars, srvVars, stVars>>

NextQuery ==
    \/ QueryRetrieve
    \/ QueryStatistics

(***************************************************************************)
(* Calls of the functions that keep no state between calls.  The function  *)
(* and its arguments are drawn at the start; one action per function       *)
(* applies it.                                                             *)
(***************************************************************************)
FnIdle ==
    /\ fnPc = "idle"
    /\ fnName = ""
    /\ fnArg = << >>
    /\ fnRet = << >>

StatMatchLists == UNION { [1..n -> ({ [similarity |-> 80, outcome_4h |-> o] : o \in { << >>, << -2 >>, << -1 >>, << 0 >>, << 1 >>, << 2 >>, << 3 >> } })] : n \in 0..MaxMatches }

\* rag_retriever.rs:220-227, in the order the struct literal evaluates them
RequiredFields ==
    << "timestamp", "date", "rsi_7", "rsi_14", "macd", "ema_ratio",
       "oi_delta_pct", "funding_rate" >>

\* rag_retriever.rs:228-232
OutcomeFields ==
    {"outcome_1h", "outcome_4h", "outcome_24h", "max_runup_1h", "max_drawdown_1h"}

\* rag_retriever.rs:233-234
FlagFields == {"hit_stop_loss", "hit_take_profit"}

PayloadFields ==
    {RequiredFields[i] : i \in 1..Len(RequiredFields)} \cup OutcomeFields \cup FlagFields

PayloadOk(v) == [ok |-> TRUE, value |-> v]

PayloadErr(key) == [ok |-> FALSE, error |-> key]

get_payload_f64(payload, key) ==
    IF payload[key] \in {"double", "integer"}
    THEN PayloadOk("f64")
    ELSE PayloadErr(key)

get_payload_f64_opt(payload, key) ==
    IF payload[key] \in {"double", "integer"} THEN << "f64" >> ELSE << >>

get_payload_bool_opt(payload, key) ==
    IF payload[key] = "bool" THEN << "bool" >> ELSE << >>

get_payload_string(payload, key) ==
    IF payload[key] = "string" THEN PayloadOk("String") ELSE PayloadErr(key)

get_payload_u64(payload, key) ==
    IF payload[key] \in {"integer", "double"}
    THEN PayloadOk("u64")
    ELSE PayloadErr(key)

\* rag_retriever.rs:220-227: the getter called for a required field
RequiredGetter(payload, key) ==
    CASE key = "timestamp" -> get_payload_u64(payload, key)
      [] key = "date" -> get_payload_string(payload, key)
      [] OTHER -> get_payload_f64(payload, key)

\* rag_retriever.rs:218-235: one HistoricalMatch; the first `?` that sees
\* an Err returns it
HydratePoint(payload) ==
    LET failing == { i \in 1..Len(RequiredFields) :
                        ~RequiredGetter(payload, RequiredFields[i]).ok }
    IN  IF failing # {}
        THEN PayloadErr(RequiredFields[CHOOSE i \in failing :
                                          \A j \in failing : i <= j])
        ELSE PayloadOk(
               [f \in PayloadFields |->
                  IF f \in OutcomeFields THEN get_payload_f64_opt(payload, f)
                  ELSE IF f \in FlagFields THEN get_payload_bool_opt(payload, f)
                  ELSE << RequiredGetter(payload, f).value >>])

\* a variant of the loop that drops the points it cannot hydrate
ParseResults_SkipInvalid(scored_points) ==
    LET good == SelectSeq(scored_points, LAMBDA p : HydratePoint(p).ok)
    IN  [ok |-> TRUE,
         matches |-> [i \in 1..Len(good) |-> HydratePoint(good[i]).value]]

\* rag_retriever.rs:213-238: the loop over the scored points
ParseResults(scored_points) ==
    LET failing == { i \in 1..Len(scored_points) : ~HydratePoint(scored_points[i]).ok }
    IN  IF failing # {}
        THEN HydratePoint(scored_points[CHOOSE i \in failing :
                                           \A j \in failing : i <= j])
        ELSE [ok |-> TRUE,
              matches |-> [i \in 1..Len(scored_points) |->
                              HydratePoint(scored_points[i]).value]]

\* vector_store.rs:148-173: the payload point_to_payload writes, all
\* outcomes known
FullPayload ==
    [f \in PayloadFields |->
        IF f = "timestamp" THEN "integer"
        ELSE IF f = "date" THEN "string"
        ELSE IF f \in FlagFields THEN "bool"
        ELSE "double"]

PointLists == UNION { [1..n -> ({FullPayload} \cup
                                { [FullPayload EXCEPT ![f] = k] : f \in PayloadFields, k \in {"absent", "null", "double", "integer", "string", "bool"} })] : n \in 0..MaxPoints }

\* ---- the search request (rag_retriever.rs:92-205) ----
\* numbers are scaled to integers: open interest and its delta in whole
\* percent, funding rates in units of 1e-5, similarity in hundredths
MS_PER_DAY == 86400 * 1000

\* |funding_rate| > 0.0001, in units of 1e-5
FUNDING_THRESHOLD == 10

\* oi_delta.abs() > 5.0 and the +-10.0 band
OI_DELTA_THRESHOLD == 5

OI_DELTA_BAND == 10

Abs(x) == IF x < 0 THEN -x ELSE x

\* market_snapshot.rs:121-129
oi_delta_pct(snapshot) ==
    IF Abs(snapshot.open_interest_avg_24h) > 0
    THEN ((snapshot.open_interest_latest - snapshot.open_interest_avg_24h) * 100)
             \div snapshot.open_interest_avg_24h
    ELSE 0

\* a subtraction that goes below zero instead of stopping there
saturating_sub_Plain(a, b) == a - b

\* u64::saturating_sub
saturating_sub(a, b) == IF a >= b THEN a - b ELSE 0

\* a Range with optional bounds
RangeCondition(key, gte, lte) == [key |-> key, gte |-> gte, lte |-> lte]

\* rag_retriever.rs:93-194: the conditions of Filter.must, in push order
BuildConditions(snapshot, now_ms, lookback_days) ==
    LET lookback_ms == lookback_days * MS_PER_DAY
        min_timestamp == saturating_sub(now_ms, lookback_ms)
        oi_delta == oi_delta_pct(snapshot)
        base == << [key |-> "symbol", keyword |-> snapshot.symbol],
                   RangeCondition("timestamp", << min_timestamp >>, << >>) >>
        oi == IF Abs(oi_delta) > OI_DELTA_THRESHOLD
              THEN << RangeCondition("oi_delta_pct",
                                     << oi_delta - OI_DELTA_BAND >>,
                                     << oi_delta + OI_DELTA_BAND >>) >>
              ELSE << >>
        funding == IF Abs(snapshot.funding_rate) > FUNDING_THRESHOLD
                   THEN IF snapshot.funding_rate > 0
                        THEN << RangeCondition("funding_rate", << 0 >>, << >>) >>
                        ELSE << RangeCondition("funding_rate", << >>, << 0 >>) >>
                   ELSE << >>
    IN  base \o oi \o funding

\* rag_retriever.rs:191-205: the arguments of vector_store.search
SearchRequest(snapshot, now_ms, lookback_days, top_k) ==
    [limit |-> top_k,
     must |-> BuildConditions(snapshot, now_ms, lookback_days),
     score_threshold |-> << SCORE_THRESHOLD >>]

FilterCallSet ==
    [snapshot : ([symbol : {"BTCUSDT", "ETHUSDT"},
                 open_interest_latest : {84, 94, 95, 100, 105, 106},
                 open_interest_avg_24h : {0, 100},
                 funding_rate : {-11, -10, 0, 10, 11}]), now_ms : {0, MS_PER_DAY, 2 * MS_PER_DAY + 5},
     lookback_days : {0, 1, 3}, top_k : {1, 5}]

\* handler.rs:116-164: the fields of the query snapshot the filter reads
request_to_snapshot(params) ==
    [symbol |-> params.symbol,
     open_interest_latest |-> params.open_interest_latest,
     open_interest_avg_24h |-> params.open_interest_avg_24h,
     funding_rate |-> params.funding_rate]

\* handler.rs:36-48, 107: the search issued for a request and the filters
\* its metadata reports.  The retriever is called with the snapshot,
\* lookback_days and top_k only.
QueryFilters(params, now_ms) ==
    [search |-> SearchRequest(request_to_snapshot(params), now_ms,
                              params.lookback_days, params.top_k),
     filters_applied |-> get_filters_applied(params)]

QueryFiltersCallSet == [params : ([symbol : {"BTCUSDT"},
                                  open_interest_latest : {94, 100, 106},
                                  open_interest_avg_24h : {100},
                                  funding_rate : {-11, 0, 11},
                                  lookback_days : {1},
                                  top_k : {default_top_k},
                                  include_regime_filters : BOOLEAN]), now_ms : {2 * MS_PER_DAY + 5}]

\* ---- outcomes of a snapshot (market_snapshot.rs:172-229) ----
\* percent changes are kept in hundredths of a percent; the prices of the
\* model divide evenly
PCT_SCALE == 100

STOP_LOSS_PCT == -2 * PCT_SCALE

TAKE_PROFIT_PCT == 3 * PCT_SCALE

\* market_snapshot.rs:183-185 and 212
calc_pct_change(future_price, base_price) ==
    ((future_price - base_price) * 100 * PCT_SCALE) \div base_price

\* Option::map(calc_pct_change)
MapPctChange(future, base_price) ==
    IF future = << >> THEN << >> ELSE << calc_pct_change(future[1], base_price) >>

MaxOf(S) == CHOOSE x \in S : \A y \in S : y <= x

MinOf(S) == CHOOSE x \in S : \A y \in S : x <= y

\* a variant that needs the price to pass the level, not to touch it
calculate_intraperiod_metrics_Strict(prices, base_price) ==
    LET pcts == { calc_pct_change(prices[i], base_price) : i \in 1..Len(prices) }
    IN  [max_runup_1h |-> << MaxOf(pcts \cup {0}) >>,
         max_drawdown_1h |-> << MinOf(pcts \cup {0}) >>,
         hit_stop_loss |-> << \E x \in pcts : x < STOP_LOSS_PCT >>,
         hit_take_profit |-> << \E x \in pcts : x > TAKE_PROFIT_PCT >>]

\* market_snapshot.rs:202-229
calculate_intraperiod_metrics(prices, base_price) ==
    LET pcts == { calc_pct_change(prices[i], base_price) : i \in 1..Len(prices) }
    IN  [max_runup_1h |-> << MaxOf(pcts \cup {0}) >>,
         max_drawdown_1h |-> << MinOf(pcts \cup {0}) >>,
         hit_stop_loss |-> << \E x \in pcts : x <= STOP_LOSS_PCT >>,
         hit_take_profit |-> << \E x \in pcts : x >= TAKE_PROFIT_PCT >>]

\* MarketStateSnapshot::new: no outcome is known
NoIntraperiod ==
    [max_runup_1h |-> << >>, max_drawdown_1h |-> << >>,
     hit_stop_loss |-> << >>, hit_take_profit |-> << >>]

\* market_snapshot.rs:172-199: the outcome fields of the snapshot afterwards
calculate_outcomes_from_future_prices(price, price_15m, price_1h, price_4h, price_24h, prices_intraperiod_1h) ==
    [outcome_15m |-> MapPctChange(price_15m, price),
     outcome_1h |-> MapPctChange(price_1h, price),
     outcome_4h |-> MapPctChange(price_4h, price),
     outcome_24h |-> MapPctChange(price_24h, price),
     intraperiod |-> IF prices_intraperiod_1h # << >>
                     THEN calculate_intraperiod_metrics(prices_intraperiod_1h, price)
                     ELSE NoIntraperiod]

OutcomeCallSet ==
    [price : {50, 100, 200},
     price_15m : {<< >>, << 102 >>},
     price_1h : {<< >>, << 98 >>},
     price_4h : {<< >>, << 100 >>},
     price_24h : {<< >>, << 104 >>},
     prices_intraperiod_1h : (UNION { [1..n -> {49, 51, 98, 99, 103, 104, 196, 206}] : n \in 0..MaxPrices })]

\* ---- the embedding text (snapshot_formatter.rs:12-115, 138-149) ----
\* numbers are integers in the unit their format prints: RSI in tenths,
\* MACD and price changes in hundredths, slopes in thousandths, the EMA
\* ratio in ten-thousandths, funding rates in units of 1e-5
interpret_rsi(rsi) ==
    IF rsi >= 800 THEN "extremely overbought"
    ELSE IF rsi >= 700 THEN "overbought"
    ELSE IF rsi >= 600 THEN "bullish territory"
    ELSE IF rsi >= 400 THEN "neutral"
    ELSE IF rsi >= 300 THEN "bearish territory"
    ELSE IF rsi >= 200 THEN "oversold"
    ELSE "extremely oversold"

\* market_snapshot.rs:132-158: least-squares slope; the sums are scaled by
\* 2n and 4 to stay in the integers
calculate_slope(values) ==
    LET n == Len(values)
        total == SumSeq(values)
        numerator == SumSeq([i \in 1..n |->
                        (2 * (i - 1) - (n - 1)) * (n * values[i] - total)])
        denominator == SumSeq([i \in 1..n |->
                        (2 * (i - 1) - (n - 1)) * (2 * (i - 1) - (n - 1))])
    IN  IF n < 2 THEN 0
        ELSE IF denominator = 0 THEN 0
        ELSE (2 * numerator) \div (n * denominator)

\* market_snapshot.rs:112-118, in ten-thousandths
ema_ratio_20_50(snapshot) ==
    IF Abs(snapshot.ema_50_4h) > 0
    THEN (snapshot.ema_20_4h * 10000) \div snapshot.ema_50_4h
    ELSE 10000

\* snapshot_formatter.rs:17-112: the parts pushed, in order
EmbeddingParts(snapshot) ==
    LET macd_slope == calculate_slope(snapshot.macd_values)
        ema_ratio == ema_ratio_20_50(snapshot)
        oi_delta == oi_delta_pct(snapshot)
        rsi_slope == calculate_slope(snapshot.rsi_7_values)
    IN  << << "RSI(7) is", snapshot.rsi_7, "which is", interpret_rsi(snapshot.rsi_7) >>,
           << "RSI(14) is", snapshot.rsi_14 >>,
           << "MACD is", snapshot.macd >>,
           << "MACD momentum is",
              IF macd_slope > 0 THEN "rising"
              ELSE IF macd_slope < 0 THEN "falling" ELSE "flat",
              "slope", macd_slope >>,
           << "EMA(20)/EMA(50) ratio is", ema_ratio, "indicating",
              IF ema_ratio > 10050 THEN "strong uptrend"
              ELSE IF ema_ratio < 9950 THEN "strong downtrend" ELSE "sideways" >>,
           << "Open interest is",
              IF oi_delta > 5 THEN "rising significantly"
              ELSE IF oi_delta < -5 THEN "dropping significantly" ELSE "stable",
              oi_delta, "% vs 24h average" >>,
           << "Funding rate is",
              IF snapshot.funding_rate > 50 THEN "highly positive (longs paying shorts)"
              ELSE IF snapshot.funding_rate < -50
                   THEN "highly negative (shorts paying longs)" ELSE "neutral" >> >>
        \o (IF Abs(rsi_slope) > 2000
            THEN << << "RSI momentum is",
                       IF rsi_slope > 0 THEN "accelerating up"
                       ELSE "accelerating down" >> >>
            ELSE << >>)
        \o (IF snapshot.atr_14_4h > 0 /\ snapshot.atr_3_4h > 0
            THEN << << "Volatility is",
                       IF 2 * snapshot.atr_3_4h > 3 * snapshot.atr_14_4h
                       THEN "elevated" ELSE "normal" >> >>
            ELSE << >>)
        \o (IF Abs(snapshot.price_change_1h) > 50
            THEN << << "Price changed", snapshot.price_change_1h,
                       "% in the last hour" >> >>
            ELSE << >>)
        \o (IF Abs(snapshot.price_change_4h) > 100
            THEN << << "Price changed", snapshot.price_change_4h,
                       "% in the last 4 hours" >> >>
            ELSE << >>)

\* a rich form that opens with the price, as the simple form does
to_embedding_text_rich_Priced(snapshot) ==
    << "Market state for", snapshot.symbol, "Price", snapshot.price,
       EmbeddingParts(snapshot) >>

\* snapshot_formatter.rs:14-115: the whole rich form, of which
\* to_embedding_text above keeps the opening
to_embedding_text_rich(snapshot) ==
    << "Market state for", snapshot.symbol, EmbeddingParts(snapshot) >>

\* ingestion_pipeline.rs:145 and rag_retriever.rs:82: the text embedded at
\* ingestion and the text embedded for a query, for two snapshots
EmbeddingTexts(pair) ==
    [ingestion |-> << to_embedding_text_rich(pair[1]), to_embedding_text_rich(pair[2]) >>,
     retrieval |-> << to_embedding_text_rich(pair[1]), to_embedding_text_rich(pair[2]) >>]

TextCallSet == [1..2 -> ([symbol : {"BTCUSDT"},
                         timestamp : {T0, T0 + 180000},
                         price : {100, 200},
                         rsi_7 : {255, 755},
                         rsi_14 : {500},
                         macd : {-120},
                         macd_values : {<< 1, 3 >>},
                         rsi_7_values : {<< >>, << 0, 3000 >>},
                         ema_20_4h : {101},
                         ema_50_4h : {100},
                         atr_3_4h : {4},
                         atr_14_4h : {2},
                         open_interest_latest : {106},
                         open_interest_avg_24h : {100},
                         funding_rate : {0, 60},
                         price_change_1h : {0, 75},
                         price_change_4h : {-150},
                         outcome_15m : {<< >>},
                         outcome_1h : {<< >>},
                         outcome_4h : {<< >>, << 300 >>},
                         outcome_24h : {<< >>},
                         max_runup_1h : {<< >>},
                         max_drawdown_1h : {<< >>},
                         hit_stop_loss : {<< >>, << TRUE >>},
                         hit_take_profit : {<< >>}])]

\* handler.rs:89: let statistics = self.calculate_statistics(&matches)
CallCalculateStatistics ==
    /\ fnPc = "call"
    /\ fnName = "calculate_statistics"
    /\ fnRet' = calculate_statistics(fnArg)
    /\ fnPc' = "done"
    /\ UNCHANGED <<fnName, fnArg>>
    /\ UNCHANGED <<rpcVars, exVars, ingVars, qVars, srvVars, stVars>>

\* rag_retriever.rs:213-238: hydration of the points the search returned
CallParseResults ==
    /\ fnPc = "call"
    /\ fnName = "parse_results"
    /\ fnRet' = ParseResults(fnArg)
    /\ fnPc' = "done"
    /\ UNCHANGED <<fnName, fnArg>>
    /\ UNCHANGED <<rpcVars, exVars, ingVars, qVars, srvVars, stVars>>

\* rag_retriever.rs:92-205: the filter and the search issued for a query
CallSearchRequest ==
    /\ fnPc = "call"
    /\ fnName = "search_request"
    /\ fnRet' = SearchRequest(fnArg.snapshot, fnArg.now_ms,
                              fnArg.lookback_days, fnArg.top_k)
    /\ fnPc' = "done"
    /\ UNCHANGED <<fnName, fnArg>>
    /\ UNCHANGED <<rpcVars, exVars, ingVars, qVars, srvVars, stVars>>

\* handler.rs:36-48, 107: one request, its search and its filters_applied
CallQueryFilters ==
    /\ fnPc = "call"
    /\ fnName = "query_filters"
    /\ fnRet' = QueryFilters(fnArg.params, fnArg.now_ms)
    /\ fnPc' = "done"
    /\ UNCHANGED <<fnName, fnArg>>
    /\ UNCHANGED <<rpcVars, exVars, ingVars, qVars, srvVars, stVars>>

\* market_snapshot.rs:172-199
CallCalculateOutcomes ==
    /\ fnPc = "call"
    /\ fnName = "calculate_outcomes_from_future_prices"
    /\ fnRet' = calculate_outcomes_from_future_prices(
                    fnArg.price, fnArg.price_15m, fnArg.price_1h, fnArg.price_4h,
                    fnArg.price_24h, fnArg.prices_intraperiod_1h)
    /\ fnPc' = "done"
    /\ UNCHANGED <<fnName, fnArg>>
    /\ UNCHANGED <<rpcVars, exVars, ingVars, qVars, srvVars, stVars>>

\* ingestion_pipeline.rs:145, rag_retriever.rs:82: s.to_embedding_text()
CallToEmbeddingText ==
    /\ fnPc = "call"
    /\ fnName = "to_embedding_text"
    /\ fnRet' = EmbeddingTexts(fnArg)
    /\ fnPc' = "done"
    /\ UNCHANGED <<fnName, fnArg>>
    /\ UNCHANGED <<rpcVars, exVars, ingVars, qVars, srvVars, stVars>>

NextFn ==
    \/ CallCalculateStatistics
    \/ CallParseResults
    \/ CallSearchRequest
    \/ CallQueryFilters
    \/ CallCalculateOutcomes
    \/ CallToEmbeddingText

(***************************************************************************)
(* The accept loop and its connection tasks (server.rs:47-109).  Peers     *)
(* connect, send request lines and close; run() accepts and spawns one     *)
(* task per socket; each task runs the loop of handle_connection.  The     *)
(* BufReader of a task and the receive buffer of its socket are `inbox`:   *)
(* lines that arrived before the peer closed are still read after it.      *)
(***************************************************************************)
Conns == {1, 2}

ServerIdle ==
    /\ listening = FALSE
    /\ backlog = {}
    /\ accept_failures = 0
    /\ conns = << >>

\* a peer opens a TCP connection: it waits in the listen queue
PeerConnect(c) ==
    /\ conns[c].pc = "unborn"
    /\ conns' = [conns EXCEPT ![c].pc = "queued"]
    /\ backlog' = backlog \cup {c}
    /\ UNCHANGED <<listening, accept_failures>>
    /\ UNCHANGED <<rpcVars, exVars, ingVars, qVars, fnVars, stVars>>

\* a peer writes one request line on its open socket
PeerSend(c) ==
    /\ conns[c].pc \in {"queued", "read", "process", "write"}
    /\ ~conns[c].peer_closed
    /\ conns[c].inbox + conns[c].started < MaxPeerLines
    /\ conns' = [conns EXCEPT ![c].inbox = @ + 1]
    /\ UNCHANGED <<listening, backlog, accept_failures>>
    /\ UNCHANGED <<rpcVars, exVars, ingVars, qVars, fnVars, stVars>>

\* a peer closes its socket, possibly while its request is processed
PeerClose(c) ==
    /\ conns[c].pc \in {"queued", "read", "process", "write"}
    /\ ~conns[c].peer_closed
    /\ conns' = [conns EXCEPT ![c].peer_closed = TRUE,
                              ![c].closed_mid_request = (conns[c].pc = "process")]
    /\ UNCHANGED <<listening, backlog, accept_failures>>
    /\ UNCHANGED <<rpcVars, exVars, ingVars, qVars, fnVars, stVars>>

\* a variant of the accept loop that serves the socket inline instead of
\* spawning: the next accept waits for the previous connection to end
AcceptOk_Inline(c) ==
    /\ listening
    /\ c \in backlog
    /\ \A d \in Conns : conns[d].pc \notin {"read", "process", "write"}
    /\ backlog' = backlog \ {c}
    /\ conns' = [conns EXCEPT ![c].pc = "read"]
    /\ UNCHANGED <<listening, accept_failures>>
    /\ UNCHANGED <<rpcVars, exVars, ingVars, qVars, fnVars, stVars>>

\* server.rs:55-66: Ok((socket, addr)) => tokio::spawn(handle_connection)
AcceptOk(c) ==
    /\ listening
    /\ c \in backlog
    /\ backlog' = backlog \ {c}
    /\ conns' = [conns EXCEPT ![c].pc = "read"]
    /\ UNCHANGED <<listening, accept_failures>>
    /\ UNCHANGED <<rpcVars, exVars, ingVars, qVars, fnVars, stVars>>

\* server.rs:68-70: Err(e) => tracing::error!(..): the loop goes on
AcceptErr ==
    /\ listening
    /\ accept_failures < MaxAcceptFailures
    /\ accept_failures' = accept_failures + 1
    /\ UNCHANGED <<listening, backlog, conns>>
    /\ UNCHANGED <<rpcVars, exVars, ingVars, qVars, fnVars, stVars>>

\* server.rs:85-97: read_line returned a line; process_request is called
ConnReadLine(c) ==
    /\ conns[c].pc = "read"
    /\ conns[c].inbox > 0
    /\ conns' = [conns EXCEPT
           ![c].pc = "process",
           ![c].inbox = @ - 1,
           ![c].started = @ + 1,
           ![c].started_after_close =
               IF conns[c].closed_mid_request THEN @ + 1 ELSE @]
    /\ UNCHANGED <<listening, backlog, accept_failures>>
    /\ UNCHANGED <<rpcVars, exVars, ingVars, qVars, fnVars, stVars>>

\* server.rs:89-92: read_line returned 0 bytes: break, the task returns Ok
ConnReadEof(c) ==
    /\ conns[c].pc = "read"
    /\ conns[c].inbox = 0
    /\ conns[c].peer_closed
    /\ conns' = [conns EXCEPT ![c].pc = "done_ok"]
    /\ UNCHANGED <<listening, backlog, accept_failures>>
    /\ UNCHANGED <<rpcVars, exVars, ingVars, qVars, fnVars, stVars>>

\* server.rs:87: read_line(..).await? returned Err (a line that is not
\* UTF-8, a reset socket): the task returns Err, which run() logs
ConnReadErr(c) ==
    /\ conns[c].pc = "read"
    /\ conns[c].inbox > 0 \/ conns[c].peer_closed
    /\ conns' = [conns EXCEPT ![c].pc = "done_err",
                              ![c].inbox = IF @ > 0 THEN @ - 1 ELSE @]
    /\ UNCHANGED <<listening, backlog, accept_failures>>
    /\ UNCHANGED <<rpcVars, exVars, ingVars, qVars, fnVars, stVars>>

\* server.rs:97: process_request(..).await returned its response
ConnProcess(c) ==
    /\ conns[c].pc = "process"
    /\ conns' = [conns EXCEPT ![c].pc = "write"]
    /\ UNCHANGED <<listening, backlog, accept_failures>>
    /\ UNCHANGED <<rpcVars, exVars, ingVars, qVars, fnVars, stVars>>

\* server.rs:100-103: write_all, write_all, flush returned Ok.  On a
\* socket whose peer has closed the kernel still accepts the bytes.
ConnWriteOk(c) ==
    /\ conns[c].pc = "write"
    /\ conns' = [conns EXCEPT ![c].pc = "read", ![c].answered = @ + 1]
    /\ UNCHANGED <<listening, backlog, accept_failures>>
    /\ UNCHANGED <<rpcVars, exVars, ingVars, qVars, fnVars, stVars>>

\* server.rs:100-103: one of the three awaits returned Err: `?` returns
ConnWriteErr(c) ==
    /\ conns[c].pc = "write"
    /\ conns[c].peer_closed
    /\ conns' = [conns EXCEPT ![c].pc = "done_err"]
    /\ UNCHANGED <<listening, backlog, accept_failures>>
    /\ UNCHANGED <<rpcVars, exVars, ingVars, qVars, fnVars, stVars>>

NextServer ==
    \/ \E c \in Conns : PeerConnect(c)
    \/ \E c \in Conns : PeerSend(c)
    \/ \E c \in Conns : PeerClose(c)
    \/ \E c \in Conns : AcceptOk(c)
    \/ AcceptErr
    \/ \E c \in Conns : ConnReadLine(c)
    \/ \E c \in Conns : ConnReadEof(c)
    \/ \E c \in Conns : ConnReadErr(c)
    \/ \E c \in Conns : ConnProcess(c)
    \/ \E c \in Conns : ConnWriteOk(c)
    \/ \E c \in Conns : ConnWriteErr(c)

(***************************************************************************)
(* LlmRagV1Strategy::generate_signal called concurrently on one instance   *)
(* (llm_rag_v1.rs:114-218).  The mutex is held inside                      *)
(* should_generate_signal and inside update_last_signal_time only; the     *)
(* retrieval and the LLM call between them run without it.                 *)
(***************************************************************************)
Callers == {1, 2}

\* config.signal_interval_ms, in clock ticks
signal_interval_ms == 2

StrategyIdle ==
    /\ clock = 0
    /\ last_signal_time = 0
    /\ callers = << >>
    /\ signals = << >>
    /\ calls_started = 0

\* llm_rag_v1.rs:199-210
should_generate_signal(now, last_time) ==
    IF last_time = 0
    THEN TRUE
    ELSE saturating_sub(now, last_time) >= signal_interval_ms

\* time passes
Tick ==
    /\ clock < MaxClock
    /\ clock' = clock + 1
    /\ UNCHANGED <<last_signal_time, callers, signals, calls_started>>
    /\ UNCHANGED <<rpcVars, exVars, ingVars, qVars, fnVars, srvVars>>

\* llm_rag_v1.rs:119: the rate-limit check passes; the lock is released
\* when should_generate_signal returns
CheckAllowed(c) ==
    /\ callers[c].pc = "idle"
    /\ calls_started < MaxCalls
    /\ should_generate_signal(clock, last_signal_time)
    /\ callers' = [callers EXCEPT ![c] =
                      [pc |-> "generate", checked_at |-> clock, result |-> "-"]]
    /\ calls_started' = calls_started + 1
    /\ UNCHANGED <<clock, last_signal_time, signals>>
    /\ UNCHANGED <<rpcVars, exVars, ingVars, qVars, fnVars, srvVars>>

\* llm_rag_v1.rs:119-125: the check fails, the call returns Ok(None)
CheckLimited(c) ==
    /\ callers[c].pc = "idle"
    /\ calls_started < MaxCalls
    /\ ~should_generate_signal(clock, last_signal_time)
    /\ callers' = [callers EXCEPT ![c] =
                      [pc |-> "idle", checked_at |-> clock, result |-> "None"]]
    /\ calls_started' = calls_started + 1
    /\ UNCHANGED <<clock, last_signal_time, signals>>
    /\ UNCHANGED <<rpcVars, exVars, ingVars, qVars, fnVars, srvVars>>

\* llm_rag_v1.rs:134-181: retrieval, prompt, LLM call and parse succeeded
GenerateOk(c) ==
    /\ callers[c].pc = "generate"
    /\ callers' = [callers EXCEPT ![c].pc = "update"]
    /\ UNCHANGED <<clock, last_signal_time, signals, calls_started>>
    /\ UNCHANGED <<rpcVars, exVars, ingVars, qVars, fnVars, srvVars>>

\* llm_rag_v1.rs:178-181: the LLM call or the parse returned Err: `?`
GenerateErr(c) ==
    /\ callers[c].pc = "generate"
    /\ callers' = [callers EXCEPT ![c].pc = "idle", ![c].result = "Err"]
    /\ UNCHANGED <<clock, last_signal_time, signals, calls_started>>
    /\ UNCHANGED <<rpcVars, exVars, ingVars, qVars, fnVars, srvVars>>

\* llm_rag_v1.rs:193-195, 213-218: last_signal_time = now, Ok(Some(decision))
UpdateAndReturn(c) ==
    /\ callers[c].pc = "update"
    /\ last_signal_time' = clock
    /\ signals' = Append(signals,
                         [caller |-> c, checked_at |-> callers[c].checked_at,
                          returned_at |-> clock])
    /\ callers' = [callers EXCEPT ![c].pc = "idle", ![c].result = "Some"]
    /\ UNCHANGED <<clock, calls_started>>
    /\ UNCHANGED <<rpcVars, exVars, ingVars, qVars, fnVars, srvVars>>

NextStrategy ==
    \/ Tick
    \/ \E c \in Callers : CheckAllowed(c)
    \/ \E c \in Callers : CheckLimited(c)
    \/ \E c \in Callers : GenerateOk(c)
    \/ \E c \in Callers : GenerateErr(c)
    \/ \E c \in Callers : UpdateAndReturn(c)

(***************************************************************************)
(* The specifications.                                                     *)
(***************************************************************************)
vars == <<rpcVars, exVars, ingVars, qVars, fnVars, srvVars, stVars>>

RpcIdle ==
    /\ pc = "closed"
    /\ cur = NoLine
    /\ resp = NoResponse
    /\ lines = << >>
    /\ fates = << >>
    /\ out = << >>
    /\ sent = 0
    /\ closedBy = "open"
    /\ index = << >>
    /\ collection_exists = FALSE
    /\ min_matches = 0

Init ==
    /\ pc = "read"
    /\ cur = NoLine
    /\ resp = NoResponse
    /\ lines = << >>
    /\ fates = << >>
    /\ out = << >>
    /\ sent = 0
    /\ closedBy = "open"
    /\ index \in IndexSet
    \* RpcServer::new never creates the collection; only IngestionPipeline::new
    \* does, and points exist only in a collection that exists
    /\ collection_exists \in BOOLEAN
    /\ (~collection_exists) => (index = << >>)
    /\ min_matches \in 0..MaxMinMatches
    /\ ExtractIdle
    /\ IngestIdle
    /\ QueryIdle
    /\ FnIdle
    /\ ServerIdle
    /\ StrategyIdle

Spec == Init /\ [][NextRpc]_vars

InitExtract ==
    /\ exPc = "loop"
    /\ exSource \in {"Mock", "Lmdb"}
    /\ exKv \in (IF exSource = "Lmdb" THEN KvSet ELSE {NoKv})
    /\ exSymbol = "BTCUSDT"
    /\ exStart \in {T0, T0 + INTERVAL_3M}
    /\ exEnd \in TickTimes
    /\ exInterval \in {0, 3, 6}
    /\ current_ts = exStart
    /\ snapshots = << >>
    /\ success_count = 0
    /\ skip_count = 0
    /\ RpcIdle
    /\ IngestIdle
    /\ QueryIdle
    /\ FnIdle
    /\ ServerIdle
    /\ StrategyIdle

SpecExtract == InitExtract /\ [][NextExtract]_vars

\* the loop runs on: an enabled iteration is eventually taken
FairSpecExtract == SpecExtract /\ WF_vars(NextExtract)

InitIngest ==
    /\ ingPc = "start"
    /\ ingResult = "running"
    /\ ingSource \in {"Mock", "Lmdb"}
    /\ ingKv \in (IF ingSource = "Lmdb" THEN ({ Kv(a3, {}, {}, {}, {}) : a3 \in SUBSET Absent3m }) ELSE {NoKv})
    /\ ingSymbols \in { << "BTCUSDT" >>, << "BTCUSDT", "ETHUSDT" >>, << "ETHUSDT", "BTCUSDT" >> }
    /\ ingStart = T0
    /\ ingEnd \in ({ T0 + n * INTERVAL_3M : n \in ({ n \in 0..MaxIngestTicks : (n % BATCH_SIZE) \in {0, 1, BATCH_SIZE - 1} }) }
                   \cup { T0 + ONE_HOUR, T0 - INTERVAL_3M })
    /\ ingInterval \in {3, 15}
    /\ ingSymbol = ""
    /\ ingSnapshots = << >>
    /\ nextBatch = 1
    /\ all_points = << >>
    /\ point_id = 0
    /\ stats = IngestStats(0, 0, 0)
    /\ results = << >>
    /\ collection = << >>
    /\ upserts = 0
    /\ RpcIdle
    /\ ExtractIdle
    /\ QueryIdle
    /\ FnIdle
    /\ ServerIdle
    /\ StrategyIdle

SpecIngest == InitIngest /\ [][NextIngest]_vars

InitQuery ==
    /\ qPc = "call"
    /\ qIndex \in ({ s \in UNION { [1..n -> {60, 72, 80, 88, 95}] : n \in 0..MaxQueryIndex } : IsDescending(s) })
    /\ qTopK \in {2, default_top_k}
    /\ qMinMatches \in 0..MaxMinMatches
    /\ qFate \in Fates
    /\ qRetrieved = RetrieverErr("")
    /\ qStatistics = NoStatistics
    /\ RpcIdle
    /\ ExtractIdle
    /\ IngestIdle
    /\ FnIdle
    /\ ServerIdle
    /\ StrategyIdle

SpecQuery == InitQuery /\ [][NextQuery]_vars

InitFn ==
    /\ fnPc = "call"
    /\ fnRet = << >>
    /\ \/ /\ fnName = "calculate_statistics"
          /\ fnArg \in StatMatchLists
       \/ /\ fnName = "parse_results"
          /\ fnArg \in PointLists
       \/ /\ fnName = "search_request"
          /\ fnArg \in FilterCallSet
       \/ /\ fnName = "query_filters"
          /\ fnArg \in QueryFiltersCallSet
       \/ /\ fnName = "calculate_outcomes_from_future_prices"
          /\ fnArg \in OutcomeCallSet
       \/ /\ fnName = "to_embedding_text"
          /\ fnArg \in TextCallSet
    /\ RpcIdle
    /\ ExtractIdle
    /\ IngestIdle
    /\ QueryIdle
    /\ ServerIdle
    /\ StrategyIdle

SpecFn == InitFn /\ [][NextFn]_vars

\* server.rs:48-52: bind, then the accept loop starts
InitServer ==
    /\ listening = TRUE
    /\ backlog = {}
    /\ accept_failures = 0
    /\ conns = [c \in Conns |-> ([pc |-> "unborn", inbox |-> 0, started |-> 0, answered |-> 0,
                                 peer_closed |-> FALSE, closed_mid_request |-> FALSE,
                                 started_after_close |-> 0])]
    /\ RpcIdle
    /\ ExtractIdle
    /\ IngestIdle
    /\ QueryIdle
    /\ FnIdle
    /\ StrategyIdle

SpecServer == InitServer /\ [][NextServer]_vars

\* llm_rag_v1.rs:96: last_signal_time: Arc::new(Mutex::new(0)); the clock
\* of a running system is past the epoch
InitStrategy ==
    /\ clock = 1
    /\ last_signal_time = 0
    /\ callers = [c \in Callers |-> [pc |-> "idle", checked_at |-> 0, result |-> "-"]]
    /\ signals = << >>
    /\ calls_started = 0
    /\ RpcIdle
    /\ ExtractIdle
    /\ IngestIdle
    /\ QueryIdle
    /\ FnIdle
    /\ ServerIdle

SpecStrategy == InitStrategy /\ [][NextStrategy]_vars

(***************************************************************************)
(* Claims about the RPC connection, checked under Spec.                    *)
(***************************************************************************)

\* C1: on one connection the responses written are, in order, the responses
\* to the lines read: the k-th response is the response to the k-th line,
\* every line read has exactly one response once the task is back at the
\* head of its loop, and while line k+1 is being processed or its response
\* is pending exactly k responses have been written.
C1_ResponsesInOrder ==
    /\ Len(out) <= Len(lines)
    /\ \A k \in 1..Len(out) :
           out[k] = process_request(lines[k], index, min_matches, fates[k])
    /\ (pc = "read") => (Len(out) = Len(lines))
    /\ (pc \in {"process", "write"}) => (Len(out) = Len(lines) - 1)
    /\ (pc = "process") => (Len(fates) = Len(out))
    /\ (pc = "closed" /\ closedBy # "write_error") => (Len(out) = Len(lines))

C1_Witness ==
    /\ pc = "read"
    /\ Len(out) >= 2
    /\ out[1] # out[2]
    /\ lines[1] # lines[2]

\* C2: no line, whatever its content, ends the connection: after the task
\* consumed a line sent by the peer the task is not closed.
C2_LineNeverClosesConnection ==
    [][(sent' = sent + 1) => (pc' # "closed")]_vars

\* C3: a query whose search finds n hits with n below min_matches is answered
\* with InsufficientMatches carrying matches_found = n and
\* min_required = min_matches.
C3_InsufficientCarriesFound ==
    \A k \in 1..Len(out) :
        LET n == Len(Search(index, lines[k].top_k, SCORE_THRESHOLD))
        IN  (ReachesRetriever(lines[k]) /\ fates[k] = "ok" /\ n < min_matches)
            => /\ out[k].code = INSUFFICIENT_MATCHES
               /\ Len(out[k].data) = 1
               /\ out[k].data[1].matches_found = n
               /\ out[k].data[1].min_required = min_matches

\* C4: a query during which the vector store fails is answered with code
\* -32003 and one during which the embedding fails with code -32004, each
\* with the underlying message and no data.
C4_DownstreamErrorCodes ==
    \A k \in 1..Len(out) :
        /\ (ReachesRetriever(lines[k]) /\ fates[k] = "store_fail")
           => /\ out[k].code = QDRANT_ERROR
              /\ out[k].message[2] = "qdrant unavailable"
              /\ out[k].data = << >>
        /\ (ReachesRetriever(lines[k]) /\ fates[k] = "embed_fail")
           => /\ out[k].code = EMBEDDING_ERROR
              /\ out[k].message[2] = "embedding failed"
              /\ out[k].data = << >>

\* C5: a query whose min_similarity exceeds the similarity of every point of
\* the index is answered with InsufficientMatches and matches_found = 0.
C5_MinSimilarityAboveAll ==
    \A k \in 1..Len(out) :
        ( /\ ReachesRetriever(lines[k])
          /\ fates[k] = "ok"
          /\ \A i \in 1..Len(index) : lines[k].min_similarity > index[i] )
        => /\ out[k].code = INSUFFICIENT_MATCHES
           /\ Len(out[k].data) = 1
           /\ out[k].data[1].matches_found = 0

\* the response to `line` is the same whatever the collection holds and
\* whatever embedding model and store would do: no retrieval stands behind it
NoRetrievalFor(line, response) ==
    \A idx \in {<< >>, index} : \A f \in Fates :
        process_request(line, idx, min_matches, f) = response

\* C12: every line the task consumed that does not hold JSON is answered
\* with code -32700 and id null, no retrieval is performed for it, and this
\* includes the line read_line could not decode: it too has its response.
C12_ParseErrorAnswered ==
    /\ \A k \in 1..Len(out) :
           (~lines[k].json)
           => /\ out[k].code = PARSE_ERROR
              /\ out[k].id = NullId
              /\ NoRetrievalFor(lines[k], out[k])
    /\ (closedBy = "read_error") => (Len(out) = sent)

\* C13: a parsed request whose jsonrpc is not "2.0" is answered with -32600
\* and the request's id, whatever its method: it never gets -32601 and no
\* method handler or retrieval stands behind the response.
C13_VersionBeforeMethod ==
    \A k \in 1..Len(out) :
        (lines[k].json /\ lines[k].jsonrpc # "2.0")
        => /\ out[k].code = INVALID_REQUEST
           /\ out[k].code # METHOD_NOT_FOUND
           /\ out[k].id = lines[k].id
           /\ out[k].message = <<"Invalid request", "JSON-RPC version must be 2.0">>
           /\ NoRetrievalFor(lines[k], out[k])

C13_Witness ==
    \E k \in 1..Len(out) : \E j \in 1..Len(out) :
        /\ lines[k].json /\ lines[k].jsonrpc # "2.0"
        /\ lines[k].method # "rag.query_patterns"
        /\ out[k].code = INVALID_REQUEST
        /\ lines[j].json /\ lines[j].jsonrpc # "2.0"
        /\ lines[j].method = "rag.query_patterns"
        /\ out[j].code = INVALID_REQUEST

\* C14: a parsed request with jsonrpc "2.0" and a method other than
\* rag.query_patterns is answered with -32601 and the request's id.
C14_UnknownMethod ==
    \A k \in 1..Len(out) :
        (lines[k].json /\ lines[k].jsonrpc = "2.0"
            /\ lines[k].method # "rag.query_patterns")
        => /\ out[k].code = METHOD_NOT_FOUND
           /\ out[k].id = lines[k].id
           /\ out[k].message = <<"Method not found", lines[k].method>>

C14_Witness ==
    \E k \in 1..Len(out) :
        /\ lines[k].json /\ lines[k].jsonrpc = "2.0"
        /\ lines[k].method = "invalid.method"
        /\ lines[k].id = 2
        /\ out[k].code = METHOD_NOT_FOUND
        /\ out[k].id = 2

\* C15: a rag.query_patterns request whose params are absent or do not
\* deserialize is answered with -32602 and the request's id, and no
\* retrieval stands behind the response.
C15_InvalidParams ==
    \A k \in 1..Len(out) :
        (lines[k].json /\ lines[k].jsonrpc = "2.0"
            /\ lines[k].method = "rag.query_patterns"
            /\ lines[k].params \in {"none", "invalid"})
        => /\ out[k].code = INVALID_PARAMS
           /\ out[k].id = lines[k].id
           /\ NoRetrievalFor(lines[k], out[k])

C15_Witness ==
    \E k \in 1..Len(out) : \E j \in 1..Len(out) :
        /\ lines[k].method = "rag.query_patterns" /\ lines[k].jsonrpc = "2.0"
        /\ lines[k].params = "none"
        /\ out[k].code = INVALID_PARAMS
        /\ lines[j].method = "rag.query_patterns" /\ lines[j].jsonrpc = "2.0"
        /\ lines[j].params = "invalid"
        /\ out[j].code = INVALID_PARAMS
        /\ index # << >>

\* C16: a server with the default min_matches whose index holds no point,
\* the embedding model working and the store reachable, answers every
\* well-formed query with -32001, matches_found = 0 and min_required = 3;
\* this includes the server started before any ingestion created the
\* collection.
C16_EmptyIndexInsufficient ==
    \A k \in 1..Len(out) :
        ( /\ index = << >>
          /\ min_matches = default_min_matches
          /\ ReachesRetriever(lines[k])
          /\ fates[k] # "embed_fail"
          /\ (fates[k] = "store_fail") => ~collection_exists )
        => /\ out[k].code = INSUFFICIENT_MATCHES
           /\ Len(out[k].data) = 1
           /\ out[k].data[1].matches_found = 0
           /\ out[k].data[1].min_required = default_min_matches

\* C17: every success response has total_matches = len(matches),
\* min_matches <= len(matches) <= top_k, the matches in the order the search
\* returned them, and schema_version = 1.
C17_SuccessResponseShape ==
    \A k \in 1..Len(out) :
        (out[k].code = 0)
        => /\ Len(out[k].statistics) = 1
           /\ Len(out[k].metadata) = 1
           /\ out[k].statistics[1].total_matches = Len(out[k].matches)
           /\ min_matches <= Len(out[k].matches)
           /\ Len(out[k].matches) <= lines[k].top_k
           /\ \A i \in 1..Len(out[k].matches) :
                  /\ out[k].matches[i].similarity = index[i]
                  /\ out[k].matches[i].similarity >= SCORE_THRESHOLD
           /\ out[k].metadata[1].schema_version = 1

C17_Witness ==
    \E k \in 1..Len(out) :
        /\ out[k].code = 0
        /\ lines[k].top_k = 2
        /\ Len(out[k].matches) = 2
        /\ Len(SelectSeq(index, LAMBDA x : x >= SCORE_THRESHOLD)) = 3
        /\ out[k].matches[1].similarity > out[k].matches[2].similarity
        /\ min_matches = 2

\* C18: filters_applied of a success response holds "symbol" and
\* "timerange" always, and "oi_delta" and "funding_sign" exactly when the
\* request's include_regime_filters is true.
C18_FiltersApplied ==
    \A k \in 1..Len(out) :
        (out[k].code = 0)
        => LET filters == { out[k].metadata[1].filters_applied[i] :
                              i \in 1..Len(out[k].metadata[1].filters_applied) }
           IN  /\ "symbol" \in filters
               /\ "timerange" \in filters
               /\ ("oi_delta" \in filters) <=> lines[k].include_regime_filters
               /\ ("funding_sign" \in filters) <=> lines[k].include_regime_filters

C18_Witness ==
    \E k \in 1..Len(out) : \E j \in 1..Len(out) :
        /\ out[k].code = 0
        /\ ~lines[k].include_regime_filters
        /\ out[k].metadata[1].filters_applied = << "symbol", "timerange" >>
        /\ out[j].code = 0
        /\ lines[j].include_regime_filters
        /\ Len(out[j].metadata[1].filters_applied) = 4

(***************************************************************************)
(* Claims about extraction, checked under SpecExtract / FairSpecExtract.   *)
(***************************************************************************)

\* the 3m indicators, the 4h indicators or the 3m candle are missing at t
MissingAt(kv, symbol, t) ==
    \/ read_indicators_3m(kv, symbol, t) = << >>
    \/ read_indicators_4h(kv, symbol, t) = << >>
    \/ read_candles_3m(kv, symbol, t) = << >>

\* C8: a KV-backed extraction over a range with interval_minutes > 0 that
\* has returned holds exactly the snapshots
\* of the ticks that could be assembled, in ascending time order; every
\* other tick was counted as skipped (snapshots + skipped = ticks), a tick
\* with missing data at its timestamp has no snapshot, and the ticks after
\* it were still visited.
C8_MissingTickSkipped ==
    (exPc = "done" /\ exSource = "Lmdb" /\ (exInterval > 0 \/ exEnd <= exStart)) =>
        LET ticks == TickSeq(exStart, exEnd, exInterval * 60000)
            good == SelectSeq(ticks,
                        LAMBDA t : build_snapshot_from_lmdb(exKv, exSymbol, t).ok)
        IN  /\ snapshots = [ i \in 1..Len(good) |->
                               build_snapshot_from_lmdb(exKv, exSymbol, good[i]).snapshot ]
            /\ Len(snapshots) + skip_count = Len(ticks)
            /\ success_count = Len(snapshots)
            /\ \A i \in 1..Len(snapshots) : \A j \in 1..Len(snapshots) :
                   (i < j) => (snapshots[i].timestamp < snapshots[j].timestamp)
            /\ \A k \in 1..Len(ticks) :
                   MissingAt(exKv, exSymbol, ticks[k])
                   => (\A i \in 1..Len(snapshots) : snapshots[i].timestamp # ticks[k])

C8_Witness ==
    /\ exPc = "done"
    /\ exSource = "Lmdb"
    /\ MissingAt(exKv, exSymbol, exStart)
    /\ exStart < exEnd
    /\ skip_count > 0
    /\ Len(snapshots) > 0
    /\ snapshots[Len(snapshots)].timestamp > exStart

\* C9: extract_snapshots terminates for every input, interval_minutes = 0
\* with start < end included.
C9_ExtractTerminates == <>(exPc = "done")

\* C10: every snapshot produced by the assembler has each of its seven
\* series of length exactly 10.
C10_SeriesLengthTen ==
    \A i \in 1..Len(snapshots) :
        /\ Len(snapshots[i].mid_prices) = SERIES_COUNT
        /\ Len(snapshots[i].ema_20_values) = SERIES_COUNT
        /\ Len(snapshots[i].macd_values) = SERIES_COUNT
        /\ Len(snapshots[i].rsi_7_values) = SERIES_COUNT
        /\ Len(snapshots[i].rsi_14_values) = SERIES_COUNT
        /\ Len(snapshots[i].macd_4h_values) = SERIES_COUNT
        /\ Len(snapshots[i].rsi_14_4h_values) = SERIES_COUNT

(***************************************************************************)
(* Claims about ingestion, checked under SpecIngest.                       *)
(***************************************************************************)
RECURSIVE SumCreated(_)
SumCreated(rs) ==
    IF rs = << >> THEN 0
    ELSE Head(rs).stats.snapshots_created + SumCreated(Tail(rs))

PointsOf(symbol) ==
    { id \in DOMAIN collection : collection[id].payload.symbol = symbol }

\* C6: after a successful run over several symbols into an empty collection
\* the collection holds one point per snapshot created: the number of
\* stored points is the sum of snapshots_created, and every symbol still has
\* as many points as snapshots were created for it.
C6_OnePointPerSnapshot ==
    (ingPc = "done" /\ ingResult = "ok") =>
        /\ Cardinality(DOMAIN collection) = SumCreated(results)
        /\ \A k \in 1..Len(results) :
               Cardinality(PointsOf(results[k].symbol))
                   = results[k].stats.snapshots_created

\* C7: every ingest_symbol_history call that returned success with
\* snapshots_created > 0 reports embeddings_generated = snapshots_created
\* and points_uploaded = snapshots_created.
C7_StatsAgree ==
    \A k \in 1..Len(results) :
        (results[k].stats.snapshots_created > 0) =>
            /\ results[k].stats.embeddings_generated = results[k].stats.snapshots_created
            /\ results[k].stats.points_uploaded = results[k].stats.snapshots_created

C7_Witness ==
    \E k \in 1..Len(results) :
        /\ results[k].stats.snapshots_created > BATCH_SIZE
        /\ results[k].stats.snapshots_created % BATCH_SIZE # 0
        /\ results[k].stats.points_uploaded = results[k].stats.snapshots_created

\* C19: a mock extraction with interval > 0 holds exactly one snapshot per
\* tick start + i * interval_ms strictly below end, in ascending order (a
\* one-hour range at 15 minutes gives 4) and none when end <= start; the
\* ingestion of a range with end <= start returns IngestStats {0, 0, 0} for
\* every symbol and no error.
C19_MockTicks ==
    LET interval_ms == ingInterval * 60000
        below == { i \in 0..MaxIngestTicks : ingStart + i * interval_ms < ingEnd }
    IN  /\ (ingSource = "Mock" /\ ingSymbol # "") =>
               /\ Len(ingSnapshots) = Cardinality(below)
               /\ \A i \in 1..Len(ingSnapshots) :
                      /\ ingSnapshots[i] = create_mock_snapshot(ingSymbol,
                                               ingStart + (i - 1) * interval_ms)
                      /\ ingSnapshots[i].timestamp < ingEnd
               /\ (ingEnd <= ingStart) => (ingSnapshots = << >>)
               /\ (ingEnd = ingStart + ONE_HOUR /\ ingInterval = 15)
                      => (Len(ingSnapshots) = 4)
        /\ (ingEnd <= ingStart) =>
               /\ ingResult # "err"
               /\ collection = << >>
               /\ \A k \in 1..Len(results) : results[k].stats = IngestStats(0, 0, 0)
               /\ (ingPc = "done") => (ingResult = "ok" /\ Len(results) > 0)

C19_Witness ==
    /\ ingSource = "Mock"
    /\ ingInterval = 15
    /\ ingEnd = ingStart + ONE_HOUR
    /\ Len(ingSnapshots) = 4
    /\ ingSnapshots[4].timestamp = ingStart + 45 * 60000
    /\ ingPc = "done"
    /\ ingResult = "ok"

(***************************************************************************)
(* Claims about one retrieval and its statistics, checked under SpecQuery. *)
(***************************************************************************)

\* C11: a retrieval during which embedding and search succeed returns Ok
\* with the latency metrics, and its match list is either empty or at least
\* min_matches long: empty whenever fewer than min_matches hits were
\* hydrated, all hydrated hits in search order otherwise.
C11_EmptyOrEnough ==
    (qPc \in {"retrieved", "done"} /\ qFate = "ok") =>
        LET hits == Hydrate(Search(qIndex, qTopK, SCORE_THRESHOLD))
        IN  /\ qRetrieved.ok
            /\ qRetrieved.metrics = LatencyMetrics
            /\ (qRetrieved.matches = << >> \/ Len(qRetrieved.matches) >= qMinMatches)
            /\ (Len(hits) < qMinMatches) => (qRetrieved.matches = << >>)
            /\ (Len(hits) >= qMinMatches) => (qRetrieved.matches = hits)

C11_Witness ==
    /\ qPc = "retrieved"
    /\ qFate = "ok"
    /\ Len(Search(qIndex, qTopK, SCORE_THRESHOLD)) > 0
    /\ Len(Search(qIndex, qTopK, SCORE_THRESHOLD)) < qMinMatches
    /\ qRetrieved.ok
    /\ qRetrieved.matches = << >>

\* C20: the statistics of a non-empty match list have total_matches =
\* len(matches) and positive_count + negative_count <= total_matches:
\* positive_count is the number of matches whose outcome_4h is above zero,
\* negative_count the number of those below zero, so a match whose
\* outcome_4h is zero or absent is in the list and the total but in neither
\* count.
C20_OutcomeCounts ==
    (qPc = "done" /\ qRetrieved.matches # << >>) =>
        LET m == qRetrieved.matches
            st == qStatistics[1]
            positive == { i \in 1..Len(m) :
                            m[i].outcome_4h # << >> /\ m[i].outcome_4h[1] > 0 }
            negative == { i \in 1..Len(m) :
                            m[i].outcome_4h # << >> /\ m[i].outcome_4h[1] < 0 }
        IN  /\ st.total_matches = Len(m)
            /\ st.outcome_4h.positive_count + st.outcome_4h.negative_count
                   <= st.total_matches
            /\ st.outcome_4h.positive_count = Cardinality(positive)
            /\ st.outcome_4h.negative_count = Cardinality(negative)

C20_Witness ==
    /\ qPc = "done"
    /\ Len(qRetrieved.matches) = 4
    /\ \E i \in 1..4 : qRetrieved.matches[i].outcome_4h = << 0 >>
    /\ \E i \in 1..4 : qRetrieved.matches[i].outcome_4h = << >>
    /\ qStatistics[1].total_matches = 4
    /\ qStatistics[1].outcome_4h.positive_count = 1
    /\ qStatistics[1].outcome_4h.negative_count = 1

(***************************************************************************)
(* Claims about single function calls, checked under SpecFn.               *)
(***************************************************************************)

\* C21: for a match list with n >= 1 present outcome_4h values the kernel
\* reports median = sorted[n div 2], p10 = sorted[floor(0.10 n)],
\* p90 = sorted[floor(0.90 n)] of the ascending order and
\* win_rate = positive_count / n, the three positions lying in 0..n-1; the
\* outcomes [-2, 1, 3, -1, 2] give median 1, p10 -2, p90 3, 3 positive and
\* 2 negative.
C21_StatisticsKernel ==
    (fnPc = "done" /\ fnName = "calculate_statistics") =>
        LET present == Outcomes4h(fnArg)
            n == Len(present)
            o == fnRet.outcome_4h
            \* the value at 0-based position k of xs in ascending order: at
            \* most k values lie below it and more than k are at most it
            OrderStatistic(xs, k) ==
                CHOOSE v \in { xs[i] : i \in 1..Len(xs) } :
                    /\ Cardinality({ i \in 1..Len(xs) : xs[i] < v }) <= k
                    /\ Cardinality({ i \in 1..Len(xs) : xs[i] <= v }) > k
        IN  (n >= 1) =>
            /\ (n \div 2) \in 0..(n - 1)
            /\ (n \div 10) \in 0..(n - 1)
            /\ ((9 * n) \div 10) \in 0..(n - 1)
            /\ o.median = OrderStatistic(present, n \div 2)
            /\ o.p10 = OrderStatistic(present, n \div 10)
            /\ o.p90 = OrderStatistic(present, (9 * n) \div 10)
            /\ o.win_rate = Ratio(o.positive_count, n)
            /\ o.mean = Ratio(SumSeq(present), n)
            /\ (present = << -2, 1, 3, -1, 2 >>) =>
                   /\ o.median = 1
                   /\ o.p10 = -2
                   /\ o.p90 = 3
                   /\ o.positive_count = 3
                   /\ o.negative_count = 2
                   /\ o.win_rate = Ratio(3, 5)
                   /\ o.mean = Ratio(3, 5)

C21_Witness ==
    /\ fnPc = "done"
    /\ fnName = "calculate_statistics"
    /\ Outcomes4h(fnArg) = << -2, 1, 3, -1, 2 >>
    /\ fnRet.outcome_4h.median = 1
    /\ fnRet.outcome_4h.p90 = 3

(***************************************************************************)
(* Claims about the accept loop and the connection tasks, checked under    *)
(* SpecServer.                                                             *)
(***************************************************************************)

\* C22: when the peer closes the socket while a request is being processed,
\* the task finishes that request once, its send on the closed socket
\* returns (Ok or Err) instead of blocking, and the task processes no
\* further request of that connection.
C22_NoRequestAfterMidRequestClose ==
    \A c \in Conns :
        conns[c].closed_mid_request =>
            /\ conns[c].started_after_close = 0
            /\ conns[c].pc = "write" =>
                   ENABLED (ConnWriteOk(c) \/ ConnWriteErr(c))

\* C23: a connection that is idle or waiting for its own request never
\* keeps another connection from being accepted, read, processed and
\* answered, and neither a failed accept nor a failed connection task
\* stops the accept loop.
C23_ConnectionsIndependent ==
    /\ listening
    /\ \A c \in Conns :
        /\ c \in backlog => ENABLED AcceptOk(c)
        /\ (conns[c].pc = "read" /\ conns[c].inbox > 0) => ENABLED ConnReadLine(c)
        /\ conns[c].pc = "process" => ENABLED ConnProcess(c)
        /\ conns[c].pc = "write" => ENABLED ConnWriteOk(c)

\* one connection waits for its request, one task has failed, an accept has
\* failed, and a request of another connection has been answered
C23_Witness ==
    \E c \in Conns : \E d \in Conns \ {c} :
        /\ accept_failures > 0
        /\ conns[c].pc = "process"
        /\ conns[d].answered >= 1
        /\ conns[d].pc = "read"

(***************************************************************************)
(* Claims about hydration, checked under SpecFn.                           *)
(***************************************************************************)

\* C24: one scored point without a required payload field (or with a wrong
\* type) fails the whole query with no partial list; absent or null outcome
\* fields are hydrated as absent and never fail it.
C24_RequiredFieldsOrError ==
    (fnPc = "done" /\ fnName = "parse_results") =>
        LET \* the payload holds every required field with a usable type:
            \* numbers for the numeric fields, a string for date
            RequiredFieldsPresent(payload) ==
                /\ payload["date"] = "string"
                /\ \A i \in 1..Len(RequiredFields) :
                      RequiredFields[i] # "date" =>
                          payload[RequiredFields[i]] \in {"double", "integer"}
        IN
        IF \E i \in 1..Len(fnArg) : ~RequiredFieldsPresent(fnArg[i])
        THEN /\ ~fnRet.ok
             /\ "matches" \notin DOMAIN fnRet
        ELSE /\ fnRet.ok
             /\ Len(fnRet.matches) = Len(fnArg)
             /\ \A i \in 1..Len(fnArg) : \A f \in OutcomeFields \cup FlagFields :
                   fnArg[i][f] \in {"absent", "null"} => fnRet.matches[i][f] = << >>

\* a complete point followed by a point without macd: the query fails
C24_Witness ==
    /\ fnPc = "done"
    /\ fnName = "parse_results"
    /\ Len(fnArg) = 2
    /\ fnArg[1] = [FullPayload EXCEPT !["outcome_4h"] = "null"]
    /\ fnArg[2] = [FullPayload EXCEPT !["macd"] = "absent"]
    /\ ~fnRet.ok
    /\ fnRet.error = "macd"

(***************************************************************************)
(* Claims about the search filter, checked under SpecFn.                   *)
(***************************************************************************)

\* C25: the filter is exactly symbol = query.symbol, timestamp >=
\* max(0, now - lookback_days * 86_400_000), the oi_delta_pct band
\* [oi - 10, oi + 10] iff |oi| > 5, and the funding_rate sign condition iff
\* |funding| > 1e-4 (>= 0 for non-negative funding, <= 0 otherwise); the
\* search has k = top_k and score threshold 0.7.
C25_FilterConditions ==
    (fnPc = "done" /\ fnName = "search_request") =>
        LET q == fnArg.snapshot
            cutoff == fnArg.now_ms - fnArg.lookback_days * 86400000
            oi == oi_delta_pct(q)
            expected ==
                { [key |-> "symbol", keyword |-> q.symbol],
                  [key |-> "timestamp",
                   gte |-> << IF cutoff > 0 THEN cutoff ELSE 0 >>, lte |-> << >>] }
                \cup
                (IF oi > 5 \/ oi < -5
                 THEN { [key |-> "oi_delta_pct",
                         gte |-> << oi - 10 >>, lte |-> << oi + 10 >>] }
                 ELSE {})
                \cup
                (IF q.funding_rate > 10 \/ q.funding_rate < -10
                 THEN IF q.funding_rate >= 0
                      THEN { [key |-> "funding_rate", gte |-> << 0 >>, lte |-> << >>] }
                      ELSE { [key |-> "funding_rate", gte |-> << >>, lte |-> << 0 >>] }
                 ELSE {})
        IN  /\ { fnRet.must[i] : i \in 1..Len(fnRet.must) } = expected
            /\ Len(fnRet.must) = Cardinality(expected)
            /\ fnRet.limit = fnArg.top_k
            /\ fnRet.score_threshold = << 70 >>

\* a query whose lookback reaches before the epoch, with open interest 6%
\* above its average and negative funding: four conditions
C25_Witness ==
    /\ fnPc = "done"
    /\ fnName = "search_request"
    /\ fnArg.now_ms = MS_PER_DAY
    /\ fnArg.lookback_days = 3
    /\ oi_delta_pct(fnArg.snapshot) = 6
    /\ fnArg.snapshot.funding_rate = -11
    /\ Len(fnRet.must) = 4
    /\ fnRet.must[2].gte = << 0 >>

\* C26: with include_regime_filters = false the search carries only the
\* symbol and time-range conditions, and filters_applied names exactly the
\* conditions of the search filter.
C26_FiltersAppliedMatchSearch ==
    (fnPc = "done" /\ fnName = "query_filters") =>
        LET \* the name filters_applied uses for a condition of the filter
            FilterName(key) ==
                CASE key = "symbol" -> "symbol"
                  [] key = "timestamp" -> "timerange"
                  [] key = "oi_delta_pct" -> "oi_delta"
                  [] key = "funding_rate" -> "funding_sign"
            must == fnRet.search.must
            present == { FilterName(must[i].key) : i \in 1..Len(must) }
            named == { fnRet.filters_applied[i] :
                          i \in 1..Len(fnRet.filters_applied) }
        IN  /\ ~fnArg.params.include_regime_filters =>
                   present = {"symbol", "timerange"}
            /\ named = present

(***************************************************************************)
(* Claims about the strategy's rate limit, checked under SpecStrategy.     *)
(***************************************************************************)

\* C27: at most one signal per signal_interval_ms under every interleaving:
\* once a call has returned a decision at time t, every other call that
\* returns a decision made its rate-limit check at t + signal_interval_ms
\* or later; and the first call on a fresh instance is allowed.
C27_OneSignalPerInterval ==
    /\ \A i \in 1..Len(signals) : \A j \in 1..Len(signals) :
          i < j => signals[j].checked_at >= signals[i].returned_at + signal_interval_ms
    /\ calls_started = 0 => should_generate_signal(clock, last_signal_time)

(***************************************************************************)
(* Claims about the outcome calculation, checked under SpecFn.             *)
(***************************************************************************)

\* C28: for price > 0 and a non-empty intra-hour list, hit_stop_loss iff
\* some intra-hour price <= price * (1 - 0.02), hit_take_profit iff some
\* intra-hour price >= price * (1 + 0.03), and each outcome_X is the percent
\* change of its future price from price, or absent when that is absent.
C28_OutcomeFlags ==
    (/\ fnPc = "done"
     /\ fnName = "calculate_outcomes_from_future_prices"
     /\ fnArg.price > 0
     /\ fnArg.prices_intraperiod_1h # << >>) =>
        LET ps == fnArg.prices_intraperiod_1h
            base == fnArg.price
            \* outcome is the percent change of the future price from the base
            \* price (in hundredths of a percent), or absent with it
            IsPercentChange(outcome, future, b) ==
                IF future = << >>
                THEN outcome = << >>
                ELSE /\ outcome # << >>
                     /\ outcome[1] * b = (future[1] - b) * 10000
        IN  /\ fnRet.intraperiod.hit_stop_loss =
                   << \E i \in 1..Len(ps) : ps[i] * 100 <= base * 98 >>
            /\ fnRet.intraperiod.hit_take_profit =
                   << \E i \in 1..Len(ps) : ps[i] * 100 >= base * 103 >>
            /\ IsPercentChange(fnRet.outcome_15m, fnArg.price_15m, base)
            /\ IsPercentChange(fnRet.outcome_1h, fnArg.price_1h, base)
            /\ IsPercentChange(fnRet.outcome_4h, fnArg.price_4h, base)
            /\ IsPercentChange(fnRet.outcome_24h, fnArg.price_24h, base)

\* price 100 with intra-hour prices 98 and 103: both levels are touched
\* exactly; the 1h price 98 gives -2%, the 4h price is absent
C28_Witness ==
    /\ fnPc = "done"
    /\ fnName = "calculate_outcomes_from_future_prices"
    /\ fnArg.price = 100
    /\ fnArg.prices_intraperiod_1h = << 98, 103 >>
    /\ fnArg.price_4h = << >>
    /\ fnRet.intraperiod.hit_stop_loss = << TRUE >>
    /\ fnRet.intraperiod.hit_take_profit = << TRUE >>
    /\ fnRet.outcome_1h = << -200 >>
    /\ fnRet.outcome_4h = << >>

(***************************************************************************)
(* Claims about the upsert of an ingestion call, checked under SpecIngest. *)
(***************************************************************************)

\* C29: ingest_symbol_history issues at most one upsert per call and only
\* after every batch has been embedded; a call that fails in extraction or
\* embedding has issued no upsert and leaves the store unchanged; a call
\* whose upsert is rejected returns the error and reports no points_uploaded.
C29_UpsertOnceAfterEmbedding ==
    [][ /\ upserts' <= 1
        /\ (collection' # collection \/ upserts' > upserts) =>
               /\ ingPc = "upsert"
               /\ upserts = 0
               /\ nextBatch > Len(ingSnapshots)
               /\ stats.embeddings_generated = Len(ingSnapshots)
        /\ ingResult' = "err" =>
               /\ collection' = collection
               /\ upserts' = 0
               /\ stats'.points_uploaded = 0
               /\ results' = results ]_vars

\* a run whose first symbol was uploaded and whose second symbol, with more
\* than one batch embedded, had its upsert rejected
C29_Witness ==
    /\ ingPc = "done"
    /\ ingResult = "err"
    /\ Len(results) = 1
    /\ collection # << >>
    /\ Len(all_points) > BATCH_SIZE
    /\ nextBatch > Len(ingSnapshots)
    /\ upserts = 0

(***************************************************************************)
(* Claims about the embedding text, checked under SpecFn.                  *)
(***************************************************************************)

\* C30: the embedding text is the same at ingestion and at retrieval, and
\* two snapshots that differ only in outcome fields, timestamp or price
\* render the same text.
C30_TextIgnoresOutcomes ==
    (fnPc = "done" /\ fnName = "to_embedding_text") =>
        /\ fnRet.ingestion = fnRet.retrieval
        /\ (\A f \in DOMAIN fnArg[1] \ ({"timestamp", "price", "outcome_15m", "outcome_1h", "outcome_4h", "outcome_24h",
                                        "max_runup_1h", "max_drawdown_1h", "hit_stop_loss", "hit_take_profit"}) :
                fnArg[1][f] = fnArg[2][f])
               => fnRet.ingestion[1] = fnRet.ingestion[2]

\* two snapshots with the same indicators, one with outcomes and another
\* price and timestamp, and one text
C30_Witness ==
    /\ fnPc = "done"
    /\ fnName = "to_embedding_text"
    /\ fnArg[1].price # fnArg[2].price
    /\ fnArg[1].timestamp # fnArg[2].timestamp
    /\ fnArg[1].outcome_4h = << >>
    /\ fnArg[2].outcome_4h = << 300 >>
    /\ fnArg[2].hit_stop_loss = << TRUE >>
    /\ fnArg[1].rsi_7 = fnArg[2].rsi_7
    /\ fnRet.ingestion[1] = fnRet.retrieval[2]
    /\ Len(fnRet.ingestion[1][3]) = 11

====
